---- MODULE Spec2Model ----
(***************************************************************************)
(* Household recovery and well-being loss engine of fiat_toolbox            *)
(* (fiat_toolbox/well_being/methods.py and household.py).                   *)
(*                                                                          *)
(* Numbers.  The program computes in IEEE double precision.  The model      *)
(* computes in decimal fixed point: the integer n stands for n / Scale,     *)
(* every operation rounds its exact result to the nearest representable     *)
(* value (ties away from zero), as a floating point unit does, and the      *)
(* value NaN is absorbing and compares false with everything.               *)
(*                                                                          *)
(* Evaluation.  The arithmetic is given as functions of numbers, and an     *)
(* operator that uses a computed argument several times first binds it,     *)
(* Only({ ... x ... : x \in {arg} }), so that every value is computed once,  *)
(* as in the program.                                                       *)
(***************************************************************************)
EXTENDS Integers, Sequences, FiniteSets, TLC

(* ------------------------------------------------------------------ *)
(* Number representation                                               *)
(* ------------------------------------------------------------------ *)

\* Resolution of the fixed-point numbers: x is stored as round(x * Scale).
Scale == 10000

\* Scale = Half * Half: long division brings down two digits at a time.
Half == 100

\* np.nan: the undefined value (methods.py:32).
NaN == 2000000001

\* Python's None, the value of an unset recovery rate (household.py:40).
None == 2000000002

\* The element of a one-element set.
Only(S) == CHOOSE r \in S : TRUE

\* An ndarray: the sequence s with its elements computed.
Array(s) == s \o <<>>

Abs(x) == IF x < 0 THEN -x ELSE x

Sgn(x) == IF x < 0 THEN -1 ELSE 1

\* Quotient of naturals a / b rounded to the nearest integer, ties upward.
RoundDivNat(a, b) == (a \div b) + (2 * (a % b) + b) \div (2 * b)

\* |a| * |b| / Scale rounded to nearest, computed by parts so that no
\* intermediate product exceeds the machine word.
MulNat(x, y) ==
  (x \div Scale) * y + (x % Scale) * (y \div Scale)
    + RoundDivNat((x % Scale) * (y % Scale), Scale)

\* |a| * Scale / |b| rounded to nearest, by long division.
DivNat(x, y) ==
  LET r  == x % y
      q1 == (r * Half) \div y
      r1 == (r * Half) % y
  IN  (x \div y) * Scale + q1 * Half + RoundDivNat(r1 * Half, y)

Neg[a \in Int] == IF a = NaN THEN NaN ELSE -a

Add[a \in Int, b \in Int] == IF a = NaN \/ b = NaN THEN NaN ELSE a + b

Sub[a \in Int, b \in Int] == IF a = NaN \/ b = NaN THEN NaN ELSE a - b

Mul[a \in Int, b \in Int] ==
  IF a = NaN \/ b = NaN THEN NaN ELSE Sgn(a) * Sgn(b) * MulNat(Abs(a), Abs(b))

\* a / b for b # 0 (every division of the program has a nonzero divisor on
\* the inputs considered).
Div[a \in Int, b \in Int] ==
  IF a = NaN \/ b = NaN THEN NaN ELSE Sgn(a) * Sgn(b) * DivNat(Abs(a), Abs(b))

\* a / n for a positive integer n.
DivInt[a \in Int, n \in Int] ==
  IF a = NaN THEN NaN ELSE Sgn(a) * RoundDivNat(Abs(a), n)

\* Comparisons: any comparison with NaN is false.
Lt[a \in Int, b \in Int] == a # NaN /\ b # NaN /\ a < b

Le[a \in Int, b \in Int] == a # NaN /\ b # NaN /\ a <= b

\* The integer n, and the decimal n / d, as fixed-point values.
Num(n) == n * Scale

Dec(n, d) == Sgn(n) * DivNat(Abs(n), d)

\* int(x): truncation toward zero, as an integer.
Trunc[x \in Int] == Sgn(x) * (Abs(x) \div Scale)

(* ------------------------------------------------------------------ *)
(* np.exp, np.log and power                                            *)
(* ------------------------------------------------------------------ *)

\* e and 1/e.
E1 == Dec(271828, 100000)

EInv == Dec(36788, 100000)

\* e^(f/Scale) for 0 <= f < Scale: Taylor polynomial of degree 8, Horner form.
ExpFrac[f \in Int] ==
  LET h8 == Scale + DivInt[f, 8]
      h7 == Scale + DivInt[Mul[f, h8], 7]
      h6 == Scale + DivInt[Mul[f, h7], 6]
      h5 == Scale + DivInt[Mul[f, h6], 5]
      h4 == Scale + DivInt[Mul[f, h5], 4]
      h3 == Scale + DivInt[Mul[f, h4], 3]
      h2 == Scale + DivInt[Mul[f, h3], 2]
  IN  Scale + Mul[f, h2]

\* acc * b^n for a natural number n, by repeated multiplication (a product
\* that has reached 0 stays 0).
PowAcc[b \in Int, n \in Int, acc \in Int] ==
  IF n = 0 \/ acc = 0 THEN acc ELSE PowAcc[b, n - 1, Mul[acc, b]]

\* np.exp(z): e^z = e^n * e^f with z = n + f, n an integer and 0 <= f < 1;
\* for z < 0, e^z = (1/e)^n / e^f.
Exp[z \in Int] ==
  IF z = NaN THEN NaN
  ELSE IF z >= 0
       THEN Mul[PowAcc[E1, z \div Scale, Scale], ExpFrac[z % Scale]]
       ELSE Div[PowAcc[EInv, (-z) \div Scale, Scale], ExpFrac[(-z) % Scale]]

\* 2 artanh(z) = 2 (z + z^3/3 + ... + z^11/11), with z2 = z^2.
Artanh2[z \in Int, z2 \in Int] ==
  LET s11 == DivInt[Scale, 11]
      s9  == DivInt[Scale, 9] + Mul[z2, s11]
      s7  == DivInt[Scale, 7] + Mul[z2, s9]
      s5  == DivInt[Scale, 5] + Mul[z2, s7]
      s3  == DivInt[Scale, 3] + Mul[z2, s5]
      s1  == Scale + Mul[z2, s3]
  IN  2 * Mul[z, s1]

LnSeries[z \in Int] == Artanh2[z, Mul[z, z]]

\* ln(m) for 1 <= m < e: 2 artanh((m - 1) / (m + 1)).
LnMant[m \in Int] == LnSeries[Div[m - Scale, m + Scale]]

\* ln(x) for x > 0: reduce x to [1, e) by powers of e.
LnPos[x \in Int] ==
  IF x >= E1 THEN Scale + LnPos[Div[x, E1]]
  ELSE IF x < Scale THEN LnPos[Mul[x, E1]] - Scale
  ELSE LnMant[x]

\* np.log(x); the program only takes logarithms of positive numbers or NaN.
Ln[x \in Int] == IF x = NaN \/ x <= 0 THEN NaN ELSE LnPos[x]

\* x ** y for x > 0 (numpy power on positive bases): e^(y ln x).
Pow[x \in Int, y \in Int] ==
  IF x = NaN \/ y = NaN \/ x <= 0 THEN NaN ELSE Exp[Mul[y, Ln[x]]]

(* ------------------------------------------------------------------ *)
(* Call results, scalars and batches                                   *)
(* ------------------------------------------------------------------ *)

\* A call either returns a value or raises; err names the exception.
Ok(x) == [err |-> "none", val |-> x]

Fail(e) == [err |-> e, val |-> <<>>]

ErrRate == "ValueError: Rate must be positive."

ErrTime == "ValueError: Time must be positive."

ErrRebuilt == "ValueError: rebuilt_per must be a percentage between 0 and 100 (exclusive)."

ErrItem == "ValueError: can only convert an array of size 1 to a Python scalar"

ErrEta == "ValueError: Elasticity of marginal utility of consumption must >= 0."

ErrKind == "ValueError: Invalid loss type"

ErrMethod == "ValueError: method must be either 'trapezoid' or 'quad'."

ErrPoints == "ValueError: t must have at least 2 points to calculate the integral."

ErrIndex == "IndexError: index -1 is out of bounds for axis 0 with size 0"

ErrNoneType == "TypeError: unsupported operand type(s): 'NoneType'"

ErrFloatMin == "AttributeError: 'float' object has no attribute 'min'"

\* A scalar-or-batch argument or result: a Python float, or an ndarray of
\* any length.
Scalar(x) == [scalar |-> TRUE, data |-> <<x>>]

Batch(s) == [scalar |-> FALSE, data |-> s]

\* "x if x.size > 1 else x.item()": an array of two or more elements stays an
\* array, one element becomes a Python float, and item() of an empty array
\* raises.
SizeOrItem(x) ==
  Only({ IF Len(s) > 1 THEN Ok(Batch(s))
         ELSE IF Len(s) = 1 THEN Ok(Scalar(s[1]))
         ELSE Fail(ErrItem) : s \in {x} })

(* ------------------------------------------------------------------ *)
(* Utility kernel (methods.py)                                         *)
(* ------------------------------------------------------------------ *)

\* np.where(consumption <= 0, np.nan, consumption).
Positive[x \in Int] == IF Le[x, 0] THEN NaN ELSE x

\* A utility that takes the size of the consumption, so that none is rejected.
utility_of_size(consumption, eta) ==
  Div[Pow[Abs(consumption) + Scale, Scale - eta], Scale - eta]

\* CRRA utility of one consumption value, for eta > 0: non-positive
\* consumption becomes NaN; ln for eta = 1, else c^(1-eta)/(1-eta).
utility(consumption, eta) ==
  IF eta = Scale THEN Ln[Positive[consumption]]
  ELSE Div[Pow[Positive[consumption], Scale - eta], Scale - eta]

\* np.log(1 / (1 - rebuilt_per / 100)).
LogRebuilt(rebuilt_per) ==
  Ln[Div[Scale, Sub[Scale, Div[rebuilt_per, Num(100)]]]]

\* The validation and the quotient shared by recovery_time and recovery_rate: x is
\* the rate (time), e the error for a non-positive element.
Recovery(x, rebuilt_per, e) ==
  IF \E i \in 1..Len(x.data) : Le[x.data[i], 0] THEN Fail(e)
  ELSE IF ~(Le[0, rebuilt_per] /\ Lt[rebuilt_per, Num(100)]) THEN Fail(ErrRebuilt)
  ELSE SizeOrItem(Array([i \in 1..Len(x.data) |->
                           Div[LogRebuilt(rebuilt_per), x.data[i]]]))

recovery_time(rate, rebuilt_per) ==
  Only({ Recovery(x, rebuilt_per, ErrRate) : x \in {rate} })

\* A recovery_rate that takes rebuilt_per to be 95 whatever is passed.
recovery_rate_95(time, rebuilt_per) ==
  Only({ Recovery(x, Num(95), ErrTime) : x \in {time} })

recovery_rate(time, rebuilt_per) ==
  Only({ Recovery(x, rebuilt_per, ErrTime) : x \in {time} })

(* ------------------------------------------------------------------ *)
(* Loss-rate library (methods.py), at one time and one recovery rate   *)
(* ------------------------------------------------------------------ *)

reconstruction_cost_t(tt, ll, v, k_str) ==
  Mul[Mul[Mul[ll, v], k_str], Exp[Mul[Neg[ll], tt]]]

income_loss_t(tt, ll, v, k_str, pi) ==
  Mul[Mul[Mul[pi, v], k_str], Exp[Mul[Neg[ll], tt]]]

\* A consumption loss without the reconstruction cost.
consumption_loss_income_only(tt, ll, v, k_str, pi) == income_loss_t(tt, ll, v, k_str, pi)

\* A consumption loss that does not decay.
consumption_loss_steady(tt, ll, v, k_str, pi) == Mul[Mul[Add[pi, ll], v], k_str]

consumption_loss_t(tt, ll, v, k_str, pi) ==
  Add[income_loss_t(tt, ll, v, k_str, pi), reconstruction_cost_t(tt, ll, v, k_str)]

consumption_t(tt, ll, v, k_str, pi, c0) ==
  Sub[c0, consumption_loss_t(tt, ll, v, k_str, pi)]

\* The difference taken the other way round.
utility_gain_t(tt, ll, v, k_str, pi, c0, eta) ==
  Sub[utility(consumption_t(tt, ll, v, k_str, pi, c0), eta), utility(c0, eta)]

utility_loss_t(tt, ll, v, k_str, pi, c0, eta) ==
  Sub[utility(c0, eta), utility(consumption_t(tt, ll, v, k_str, pi, c0), eta)]

\* A wellbeing loss that reads an undefined utility loss as none.
wellbeing_loss_or_zero(du, c_avg, eta) ==
  IF du = NaN THEN 0 ELSE Div[du, Pow[c_avg, Neg[eta]]]

wellbeing_loss(du, c_avg, eta) == Div[du, Pow[c_avg, Neg[eta]]]

\* The weight with the two consumptions exchanged.
equity_weight_inverse(c, c_avg, eta) == Pow[Div[c_avg, c], Neg[eta]]

equity_weight(c, c_avg, eta) == Pow[Div[c, c_avg], Neg[eta]]

(* ------------------------------------------------------------------ *)
(* Integration engine: class Loss and its subclasses (methods.py)      *)
(* ------------------------------------------------------------------ *)

\* LossType (household.py).
RECONSTRUCTION == "Reconstruction Costs"

INCOME == "Income Loss"

CONSUMPTION == "Consumption Loss"

UTILITY == "Utility Loss"

\* The members of LossType in definition order (the order of "for loss_type
\* in LossType").
LossType == <<RECONSTRUCTION, INCOME, CONSUMPTION, UTILITY>>

LossTypeSet == {LossType[i] : i \in 1..Len(LossType)}

\* np.linspace(start, stop, num) for num >= 0.
linspace(start, stop, num) ==
  IF num = 1 THEN <<start>>
  ELSE Array([i \in 1..num |->
                IF i = num THEN stop
                ELSE start + (i - 1) * DivInt[stop - start, num - 1]])

\* A constructor that reads an unset rate as 1.
Loss_default_rate(kind, t, l, p) ==
  [kind |-> kind, t |-> t,
   l |-> Array([j \in 1..Len(l) |-> IF l[j] = None THEN Scale ELSE l[j]]),
   v |-> p.v, k_str |-> p.k_str, pi |-> p.pi, c0 |-> p.c0, eta |-> p.eta]

\* Loss.__init__ through a subclass: the time points, the recovery rates made
\* a 1-d array (np.atleast_1d), and the parameters the subclass binds in
\* _fun.  p is the record of household parameters v, k_str, pi, c0, eta.
Loss(kind, t, l, p) ==
  [kind |-> kind, t |-> t, l |-> l,
   v |-> p.v, k_str |-> p.k_str, pi |-> p.pi, c0 |-> p.c0, eta |-> p.eta]

\* self._fun(t, l) at one time and one rate.
Loss_fun(L, tt, ll) ==
  CASE L.kind = RECONSTRUCTION -> reconstruction_cost_t(tt, ll, L.v, L.k_str)
    [] L.kind = INCOME -> income_loss_t(tt, ll, L.v, L.k_str, L.pi)
    [] L.kind = CONSUMPTION -> consumption_loss_t(tt, ll, L.v, L.k_str, L.pi)
    [] L.kind = UTILITY -> utility_loss_t(tt, ll, L.v, L.k_str, L.pi, L.c0, L.eta)

\* The exception evaluating _fun raises, if any: arithmetic on a None rate is
\* a TypeError; utility() rejects eta <= 0 once consumption was computed.
Loss_raises(L) ==
  IF \E j \in 1..Len(L.l) : L.l[j] = None THEN ErrNoneType
  ELSE IF L.kind = UTILITY /\ Le[L.eta, 0] THEN ErrEta
  ELSE IF L.kind = UTILITY /\ Len(L.t) = 0 THEN ErrItem
  ELSE "none"

\* What a call does to the warnings module, the process-wide state the
\* program touches: filtered, it has called warnings.filterwarnings("ignore",
\* category=IntegrationWarning); warned, it has issued the UserWarning of
\* utility() for eta == 1.
NoEffect == [filtered |-> FALSE, warned |-> FALSE]

\* The effect of steps made one after the other, each [err, effect], up to
\* and including the first that raises.
EffectOf(steps) ==
  LET last == IF \A i \in 1..Len(steps) : steps[i].err = "none" THEN Len(steps)
              ELSE CHOOSE i \in 1..Len(steps) :
                     steps[i].err # "none" /\ \A j \in 1..(i - 1) : steps[j].err = "none"
  IN  [filtered |-> \E i \in 1..last : steps[i].effect.filtered,
       warned   |-> \E i \in 1..last : steps[i].effect.warned]

\* Evaluating _fun: the utility loss reaches utility() once the consumption
\* was computed, and utility() warns when eta == 1.
fun_effect(L) ==
  [filtered |-> FALSE,
   warned   |-> /\ L.kind = UTILITY
                /\ \A j \in 1..Len(L.l) : L.l[j] # None
                /\ L.eta = Scale]

\* The exception Loss.total raises, if any, told without integrating.
Loss_total_raises(L, method) ==
  IF Len(L.t) = 0 THEN ErrIndex
  ELSE IF method = "trapezoid" /\ Len(L.t) = 1 THEN ErrPoints
  ELSE IF method \in {"trapezoid", "quad"} THEN Loss_raises(L)
  ELSE ErrMethod

\* Loss.total: the "quad" branch installs the filter before it integrates.
Loss_total_effect(L, method) ==
  IF Len(L.t) = 0 THEN NoEffect
  ELSE IF method = "trapezoid"
       THEN IF Len(L.t) = 1 THEN NoEffect ELSE fun_effect(L)
  ELSE IF method = "quad" THEN [fun_effect(L) EXCEPT !.filtered = TRUE]
  ELSE NoEffect

\* Loss.losses_t: the rates at every time, a vector for one recovery rate and
\* a matrix (rows over time, columns over the rates) for a batch.
Loss_losses_t(L0) ==
  Only({ IF Loss_raises(L) # "none" THEN Fail(Loss_raises(L))
         ELSE IF Len(L.l) = 1
         THEN Ok(Array([i \in 1..Len(L.t) |-> Loss_fun(L, L.t[i], L.l[1])]))
         ELSE Ok(Array([i \in 1..Len(L.t) |->
                Array([j \in 1..Len(L.l) |-> Loss_fun(L, L.t[i], L.l[j])])]))
         : L \in {L0} })

\* s[1] + ... + s[k].
SumTo[s \in Seq(Int), k \in Nat] == IF k = 0 THEN 0 ELSE Add[SumTo[s, k - 1], s[k]]

\* The sum of a sequence of numbers.
SumSeq(s) == SumTo[s, Len(s)]

\* np.trapz(y, x): sum of d * (y[1:] + y[:-1]) / 2.
trapz(y0, x0) ==
  Only({ SumSeq(Array([i \in 1..(Len(x) - 1) |->
                  DivInt[Mul[x[i + 1] - x[i], Add[y[i + 1], y[i]]], 2]]))
         : y \in {y0}, x \in {x0} })

\* _fun(t, l) * exp(-rho * t), the discounted rate at one time.
Loss_dis(L, tt, ll, rho) == Mul[Loss_fun(L, tt, ll), Exp[Mul[Neg[rho], tt]]]

\* Number of panels of the quadrature rule that stands for scipy's quad.
QuadPanels == 4

\* scipy.integrate.quad(f, 0, t_max)[0], f(t) = _fun(t, li) * exp(-rho t):
\* a quadrature over [0, t_max] on nodes of its own, whatever the stored grid
\* (the model uses the composite midpoint rule).
quad(L, li, rho, t_max) ==
  LET h == DivInt[t_max, QuadPanels]
      node(k) == DivInt[(2 * k - 1) * t_max, 2 * QuadPanels]
  IN  SumSeq(Array([k \in 1..QuadPanels |->
                      Mul[Loss_dis(L, node(k), li, rho), h]]))

\* A total that integrates every entry of a batch with the first rate.
Loss_total_first_rate(L0, rho, method) ==
  Only({
    IF Len(L.t) = 0 THEN Fail(ErrIndex)
    ELSE IF method = "trapezoid"
    THEN IF Len(L.t) = 1 THEN Fail(ErrPoints)
         ELSE IF Loss_raises(L) # "none" THEN Fail(Loss_raises(L))
         ELSE SizeOrItem(Array([j \in 1..Len(L.l) |->
                trapz(Array([i \in 1..Len(L.t) |-> Loss_dis(L, L.t[i], L.l[1], rho)]),
                      L.t)]))
    ELSE IF method = "quad"
    THEN IF Loss_raises(L) # "none" THEN Fail(Loss_raises(L))
         ELSE SizeOrItem(Array([j \in 1..Len(L.l) |->
                                  quad(L, L.l[1], rho, L.t[Len(L.t)])]))
    ELSE Fail(ErrMethod)
    : L \in {L0} })

\* Loss.total(rho, method): t_max = self.t[-1] is read before the method is
\* looked at, and fails on a grid without points.
Loss_total(L0, rho, method) ==
  Only({
    IF Len(L.t) = 0 THEN Fail(ErrIndex)
    ELSE IF method = "trapezoid"
    THEN IF Len(L.t) = 1 THEN Fail(ErrPoints)
         ELSE IF Loss_raises(L) # "none" THEN Fail(Loss_raises(L))
         ELSE SizeOrItem(Array([j \in 1..Len(L.l) |->
                trapz(Array([i \in 1..Len(L.t) |-> Loss_dis(L, L.t[i], L.l[j], rho)]),
                      L.t)]))
    ELSE IF method = "quad"
    THEN IF Loss_raises(L) # "none" THEN Fail(Loss_raises(L))
         ELSE SizeOrItem(Array([j \in 1..Len(L.l) |->
                                  quad(L, L.l[j], rho, L.t[Len(L.t)])]))
    ELSE Fail(ErrMethod)
    : L \in {L0} })

(* ------------------------------------------------------------------ *)
(* Optimizer: opt_lambda (methods.py) and the Nelder-Mead search of    *)
(* scipy.optimize.minimize it calls with one variable and bounds       *)
(* ------------------------------------------------------------------ *)

ErrBounds == "ValueError: Nelder Mead - one of the lower bounds is greater than an upper bound."

\* minimize's defaults for one variable: maxiter = maxfev = 200 * N.
MaxIter == 200

MaxFun == 200

\* xatol = fatol = 1e-4.
XAtol == Dec(1, 10000)

FAtol == Dec(1, 10000)

\* np.clip(x, lb, ub) = minimum(maximum(x, lb), ub).
Clip(x, lb, ub) ==
  LET y == IF x < lb THEN lb ELSE x IN IF y > ub THEN ub ELSE y

\* An objective discounted at the rate rho of the parameters.
objective_discounted(p, times, method, l) ==
  Loss_total(Loss(UTILITY, times, <<l>>, p), p.rho, method)

\* The objective of opt_lambda at one rate: the undiscounted utility-loss total.
\* (Whether it raises does not depend on the rate.)
objective(p, times, method, l) ==
  Loss_total(Loss(UTILITY, times, <<l>>, p), 0, method)

\* The objective as minimize sees it; c records the parameters, the times and
\* the method the closure holds.
ObjVal(c, l) == objective(c.p, c.times, c.method, l).val.data[1]

\* np.argsort on the two function values: ascending, NaN last, ties in place.
NMSort(s) ==
  Only({ IF Lt[z.f1, z.f0] \/ (z.f0 = NaN /\ z.f1 # NaN)
         THEN [z EXCEPT !.x0 = z.x1, !.f0 = z.f1, !.x1 = z.x0, !.f1 = z.f0]
         ELSE z : z \in {s} })

\* One pass of the loop: reflection, expansion, contraction or shrink of the
\* two-point simplex (x0 best, x1 worst), every trial point clipped to the
\* bounds.  A function call beyond maxfev aborts the pass (fc = MaxFun + 1
\* records it).  Each trial point is evaluated once.
NMPass(s, lb, ub, c) ==
  LET f(x) == ObjVal(c, x)
      xbar == s.x0
      xr   == Clip(Mul[Num(2), xbar] - Mul[Num(1), s.x1], lb, ub)
      xe   == Clip(Mul[Num(3), xbar] - Mul[Num(2), s.x1], lb, ub)
      xc   == Clip(Mul[Dec(3, 2), xbar] - Mul[Dec(1, 2), s.x1], lb, ub)
      xcc  == Clip(Mul[Dec(1, 2), xbar] + Mul[Dec(1, 2), s.x1], lb, ub)
      xs   == Clip(s.x0 + Mul[Dec(1, 2), s.x1 - s.x0], lb, ub)
      over(n) == s.fc + n > MaxFun
      stop == [s EXCEPT !.fc = MaxFun + 1]
      put(x, fx, n) == [s EXCEPT !.x1 = x, !.f1 = fx, !.fc = s.fc + n, !.it = s.it + 1]
      shrink(n) == IF over(n + 1) THEN [stop EXCEPT !.x1 = xs]
                   ELSE put(xs, f(xs), n + 1)
      expand(fxr) ==
        Only({ IF Lt[fxe, fxr] THEN put(xe, fxe, 2) ELSE put(xr, fxr, 2)
               : fxe \in {f(xe)} })
      contract(fxr) ==
        Only({ IF Le[fxc, fxr] THEN put(xc, fxc, 2) ELSE shrink(2)
               : fxc \in {f(xc)} })
      inside ==
        Only({ IF Lt[fxcc, s.f1] THEN put(xcc, fxcc, 2) ELSE shrink(2)
               : fxcc \in {f(xcc)} })
  IN  IF over(1) THEN stop
      ELSE Only({
        IF Lt[fxr, s.f0] THEN IF over(2) THEN stop ELSE expand(fxr)
        ELSE IF Lt[fxr, s.f0] THEN put(xr, fxr, 1)   \* fxr < fsim[-2], and fsim[-2] is fsim[0]
        ELSE IF Lt[fxr, s.f1] THEN IF over(2) THEN stop ELSE contract(fxr)
        ELSE IF over(2) THEN stop ELSE inside
        : fxr \in {f(xr)} })

\* One turn of "while fcalls < maxfun and iterations < maxiter": nothing once
\* a budget is used up or the simplex has converged, else a pass and the
\* sort.  A pass that leaves the simplex as it was will be repeated unchanged
\* until a budget runs out, so it uses the budget up at once.
NMTurn(s, lb, ub, c) ==
  IF ~(s.fc < MaxFun /\ s.it < MaxIter) THEN s
  ELSE IF Le[Abs(s.x1 - s.x0), XAtol] /\ Le[Abs(Sub[s.f0, s.f1]), FAtol] THEN s
  ELSE Only({ IF n.x0 = s.x0 /\ n.x1 = s.x1 /\ n.f0 = s.f0 /\ n.f1 = s.f1
              THEN [n EXCEPT !.it = MaxIter]
              ELSE n : n \in {NMSort(NMPass(s, lb, ub, c))} })

RECURSIVE NMTurns(_, _, _, _, _)
\* n turns of the loop, as two halves.
NMTurns(s, n, lb, ub, c) ==
  IF n <= 1 THEN NMTurn(s, lb, ub, c)
  ELSE Only({ NMTurns(m, n - (n \div 2), lb, ub, c)
              : m \in {NMTurns(s, n \div 2, lb, ub, c)} })

\* The loop: the budget of iterations allows fewer than MaxIter turns.
NMLoop(s, lb, ub, c) == NMTurns(s, MaxIter, lb, ub, c)

\* minimize(f, x0, bounds = [(lb, ub)], method = "Nelder-Mead").x[0] for an
\* objective that does not raise: the initial simplex is x0 clipped and
\* x0 * 1.05 (0.00025 when x0 = 0), reflected into the interior when above
\* the upper bound, then clipped.
NelderMead(x0, lb, ub, c) ==
  LET f(x) == ObjVal(c, x)
      a  == Clip(x0, lb, ub)
      b0 == IF a # 0 THEN Mul[Dec(105, 100), a] ELSE Dec(25, 100000)
      b1 == IF b0 > ub THEN 2 * ub - b0 ELSE b0
      b  == Clip(b1, lb, ub)
  IN  Only({ NMLoop(s0, lb, ub, c).x0
             : s0 \in {NMSort([x0 |-> a, f0 |-> f(a), x1 |-> b, f1 |-> f(b),
                               fc |-> 2, it |-> 1])} })

\* An optimizer whose search is bounded by [l_min / 4, l_max].
opt_lambda_wide(p, l_min, l_max, t_max, times, method) ==
  Only({ Ok(NelderMead(lb, DivInt[lb, 4], ub, c))
         : lb \in {l_min}, ub \in {l_max},
           c \in {[p |-> p, method |-> method,
                   times |-> IF method = "quad" THEN <<0, t_max>> ELSE times]} })

\* opt_lambda(v, k_str, c0, pi, eta, l_min, l_max, t_max, times, method):
\* "quad" integrates over [0, t_max]; any other method keeps the times given.
opt_lambda(p, l_min, l_max, t_max, times, method) ==
  Only({ Only({ IF lb > ub THEN Fail(ErrBounds)
                ELSE IF first.err # "none" THEN Fail(first.err)
                ELSE Ok(NelderMead(lb, lb, ub, c))
                : first \in {objective(c.p, c.times, c.method, lb)} })
         : lb \in {l_min}, ub \in {l_max},
           c \in {[p |-> p, method |-> method,
                   times |-> IF method = "quad" THEN <<0, t_max>> ELSE times]} })

(* ------------------------------------------------------------------ *)
(* class Household (household.py)                                      *)
(* ------------------------------------------------------------------ *)

\* The outcome of a method call on a Household h: the exception raised, if
(* ------------------------------------------------------------------ *)
(* class Household (household.py)                                      *)
(* ------------------------------------------------------------------ *)

\* The outcome of a method call on a Household h: the exception raised, if
\* any, the object as the call leaves it, and the value returned.
Return(h, x) == [err |-> "none", self |-> h, ret |-> x]

Raise(h, e) == [err |-> e, self |-> h, ret |-> <<>>]

\* The empty pd.Series() / the attribute dictionary of no object.
Empty == [x \in {} |-> 0]

\* self.dt = self.t_max / (int(self.t_max / dt) + 1).
GridStep(t_max, dt) == Div[t_max, Num(Trunc[Div[t_max, dt]] + 1)]

\* Household.__init__(v, k_str, c0, c_avg, l, pi, eta, rho, t_max, dt,
\* currency): a holds the arguments other than l.  The object is its
\* attribute dictionary; recovery_time exists only when l was given, and a
\* constructor that raises leaves no object.
Household(a, l) ==
  Only({ Only({
    IF l = None THEN Return(h, None)
    ELSE Only({ IF rt.err # "none" THEN Raise(Empty, rt.err)
                ELSE Return(("recovery_time" :> rt.val.data[1]) @@ h, None)
                : rt \in {recovery_time(Scalar(l), Num(95))} })
    : h \in {[v |-> a.v, k_str |-> a.k_str, c0 |-> a.c0, c_avg |-> a.c_avg,
              pi |-> a.pi, eta |-> a.eta, rho |-> a.rho, t_max |-> a.t_max,
              dt |-> dt, t |-> linspace(0, a.t_max, Trunc[Div[a.t_max, dt]] + 1),
              currency |-> a.currency, l |-> l,
              time_series |-> ("time" :> linspace(0, a.t_max, Trunc[Div[a.t_max, dt]] + 1)),
              total_losses |-> Empty]} })
    : dt \in {GridStep(a.t_max, a.dt)} })

\* A calc_loss that returns the total and stores nothing.
calc_loss_unstored(h0, loss_type, method) ==
  Only({
    IF loss_type \notin LossTypeSet THEN Raise(h, ErrKind)
    ELSE Only({ IF tot.err # "none" THEN Raise(h, tot.err)
                ELSE Return(h, tot.val.data[1])
                : tot \in {Loss_total(Loss(loss_type, h.t, <<h.l>>, h), 0, method)} })
    : h \in {h0} })

\* Household.calc_loss(loss_type, method): the curve is stored before the
\* total is computed.
calc_loss(h0, loss_type, method) ==
  Only({
    IF loss_type \notin LossTypeSet THEN Raise(h, ErrKind)
    ELSE Only({
      IF lt.err # "none" THEN Raise(h, lt.err)
      ELSE IF tot.err # "none"
      THEN Raise([h EXCEPT !.time_series = (loss_type :> lt.val) @@ @], tot.err)
      ELSE Return([h EXCEPT !.time_series = (loss_type :> lt.val) @@ @,
                            !.total_losses = (loss_type :> tot.val.data[1]) @@ @],
                  tot.val.data[1])
      : lt \in {Loss_losses_t(Loss(loss_type, h.t, <<h.l>>, h))},
        tot \in {Loss_total(Loss(loss_type, h.t, <<h.l>>, h), 0, method)} })
    : h \in {h0} })

\* calc_loss: losses_t, then total.
calc_loss_effect(h, loss_type, method) ==
  IF loss_type \notin LossTypeSet THEN NoEffect
  ELSE Only({ EffectOf(<<[err |-> Loss_raises(L), effect |-> fun_effect(L)],
                         [err |-> Loss_total_raises(L, method),
                          effect |-> Loss_total_effect(L, method)]>>)
              : L \in {Loss(loss_type, h.t, <<h.l>>, h)} })

\* get_losses: calc_loss for the four kinds, then the discounted total of
\* the utility loss.
get_losses_effect(h, method) ==
  EffectOf(Array([k \in 1..(2 * Len(LossType) + 1) |->
    Only({ IF k <= 2 * Len(LossType) /\ k % 2 = 1
           THEN [err |-> Loss_raises(L), effect |-> fun_effect(L)]
           ELSE [err |-> Loss_total_raises(L, method),
                 effect |-> Loss_total_effect(L, method)]
           : L \in {Loss(IF k <= 2 * Len(LossType) THEN LossType[(k + 1) \div 2]
                         ELSE UTILITY,
                         h.t, <<h.l>>, h)} })]))

RECURSIVE calc_each(_, _, _)
\* "for loss_type in LossType: self.calc_loss(loss_type, method=method)" from
\* the i-th member on; the first exception ends the loop.
calc_each(h, i, method) ==
  IF i > Len(LossType) THEN Return(h, None)
  ELSE Only({ IF r.err # "none" THEN r ELSE calc_each(r.self, i + 1, method)
              : r \in {calc_loss(h, LossType[i], method)} })

WELLBEING == "Wellbeing Loss"

ASSET == "Asset Loss"

EQUITY == "Equity Weighted Loss"

\* A loss record without the asset loss.
with_metrics_no_asset(g, du_dis) ==
  (EQUITY :> Mul[Mul[equity_weight(g.c0, g.c_avg, g.eta), g.v], g.k_str])
    @@ (WELLBEING :> wellbeing_loss(du_dis, g.c_avg, g.eta))
    @@ g.total_losses

\* The three assignments that end get_losses: total_losses of g with the
\* wellbeing, asset and equity weighted entries set.
with_metrics(g, du_dis) ==
  (EQUITY :> Mul[Mul[equity_weight(g.c0, g.c_avg, g.eta), g.v], g.k_str])
    @@ (ASSET :> Mul[g.v, g.k_str])
    @@ (WELLBEING :> wellbeing_loss(du_dis, g.c_avg, g.eta))
    @@ g.total_losses

\* Household.get_losses(method).
get_losses(h, method) ==
  Only({
    IF r.err # "none" THEN r
    ELSE Only({
      IF du_dis.err # "none" THEN Raise(r.self, du_dis.err)
      ELSE Only({ Return([r.self EXCEPT !.total_losses = tl], tl)
                  : tl \in {with_metrics(r.self, du_dis.val.data[1])} })
      : du_dis \in {Loss_total(Loss(UTILITY, r.self.t, <<r.self.l>>, r.self),
                               r.self.rho, method)} })
    : r \in {calc_each(h, 1, method)} })

\* The second entry of an array in place of its maximum.
ArrSecond(s) == s[2]

\* ndarray.min() and ndarray.max() of a non-empty array.
ArrMin(s) == CHOOSE x \in {s[i] : i \in 1..Len(s)} : \A i \in 1..Len(s) : x <= s[i]

ArrMax(s) == CHOOSE x \in {s[i] : i \in 1..Len(s)} : \A i \in 1..Len(s) : x >= s[i]

\* The first exception among the results rs of calls made in order, "none"
\* when none raised.
FirstErr(rs) ==
  IF \A i \in 1..Len(rs) : rs[i].err = "none" THEN "none"
  ELSE rs[CHOOSE i \in 1..Len(rs) :
            rs[i].err # "none" /\ \A j \in 1..(i - 1) : rs[j].err = "none"].err

\* What a call of Household.opt_lambda that raises before its assignments
\* has computed.
Aborted(e) == [err |-> e, optimal_lambda |-> None, df |-> Empty]

\* df = pd.DataFrame({"lambda": ..., "recovery_time": ..., four totals}).
sweep_frame(lambdas, sweep) ==
  ("lambda" :> lambdas.data)
    @@ ("recovery_time" :> recovery_time(lambdas, Num(95)).val.data)
    @@ [i \in LossTypeSet |->
          sweep[CHOOSE k \in 1..Len(LossType) : LossType[k] = i].val.data]

\* Household.opt_lambda up to "df = pd.DataFrame(...)": the sweep over
\* no_steps recovery times, then the Optimizer between the sweep's smallest
\* and largest rate.  a holds rec_time_max, rec_time_min, no_steps, method.
\* Nothing is stored yet, and of the object only the fields fixed at
\* construction are read.
opt_lambda_values(h, a) ==
  Only({
    IF lam.err # "none" THEN Aborted(lam.err)
    ELSE Only({
      IF FirstErr(sweep) # "none" THEN Aborted(FirstErr(sweep))
      ELSE IF lam.val.scalar THEN Aborted(ErrFloatMin)
      ELSE Only({
        IF opt.err # "none" THEN Aborted(opt.err)
        ELSE Only({ [err |-> "none", optimal_lambda |-> opt.val, df |-> df]
                    : df \in {sweep_frame(lam.val, sweep)} })
        : opt \in {opt_lambda(h, ArrMin(lam.val.data), ArrMax(lam.val.data),
                              h.t_max, h.t, a.method)} })
      : sweep \in {Array([i \in 1..Len(LossType) |->
                     Loss_total(Loss(LossType[i], h.t, lam.val.data, h), 0, a.method)])} })
    : lam \in {recovery_rate(
                 Batch(linspace(a.rec_time_min,
                                IF a.rec_time_max = None THEN h.t[Len(h.t)]
                                ELSE a.rec_time_max,
                                a.no_steps)),
                 Num(95))} })

\* Household.opt_lambda: the four totals of the sweep, in the order of the
\* code; the Optimizer's totals are utility-loss totals by the same method.
opt_lambda_effect(h, a) ==
  Only({
    IF lam.err # "none" THEN NoEffect
    ELSE EffectOf(Array([i \in 1..Len(LossType) |->
           Only({ [err |-> Loss_total_raises(L, a.method),
                   effect |-> Loss_total_effect(L, a.method)]
                  : L \in {Loss(LossType[i], h.t, lam.val.data, h)} })]))
    : lam \in {recovery_rate(
                 Batch(linspace(a.rec_time_min,
                                IF a.rec_time_max = None THEN h.t[Len(h.t)]
                                ELSE a.rec_time_max,
                                a.no_steps)),
                 Num(95))} })

\* An opt_lambda that returns the optimum and stores nothing.
Household_opt_lambda_unsaved(h, vals) ==
  IF vals.err # "none" THEN Raise(h, vals.err)
  ELSE Return(h, vals.optimal_lambda)

\* Household.opt_lambda(rec_time_max, rec_time_min, no_steps, method): vals is
\* what the method computed (opt_lambda_values); the three assignments follow.
Household_opt_lambda(h, vals) ==
  IF vals.err # "none" THEN Raise(h, vals.err)
  ELSE Only({
    IF rt.err # "none" THEN Raise([h EXCEPT !.l = vals.optimal_lambda], rt.err)
    ELSE Return(("l_opt" :> vals.df) @@ ("recovery_time" :> rt.val.data[1])
                  @@ [h EXCEPT !.l = vals.optimal_lambda],
                vals.optimal_lambda)
    : rt \in {recovery_time(Scalar(vals.optimal_lambda), Num(95))} })

(* ------------------------------------------------------------------ *)
(* The calls considered                                                *)
(* ------------------------------------------------------------------ *)

\* Number of calls (constructions, assignments, method calls) in a run.
MaxCalls == 3

\* Constructor arguments: a household on the default horizon t_max = 10, one
\* with a shorter horizon and eta = 0, which utility() rejects, one whose
\* consumption c0 is used up by the consumption loss at t = 0 when l >= 1, and
\* the household v = 0.4, k_str = 100000, c0 = 2000, c_avg = 1800 with the
\* default pi, eta, rho and t_max, its money in thousands (the loss rates and
\* totals are proportional to the unit of money, the signs and the undefined
\* values do not depend on it) and on the same coarse grid as the others.
HouseholdArgs ==
  << [v |-> Dec(5, 10), k_str |-> Num(2), c0 |-> Num(13), c_avg |-> Num(10),
      pi |-> Num(2), eta |-> Dec(15, 10), rho |-> Dec(6, 100),
      t_max |-> Num(10), dt |-> Num(5), currency |-> "$"],
     [v |-> Dec(5, 10), k_str |-> Num(2), c0 |-> Num(13), c_avg |-> Num(10),
      pi |-> Num(2), eta |-> 0, rho |-> Dec(6, 100),
      t_max |-> Num(2), dt |-> Num(2), currency |-> "$"],
     [v |-> Dec(5, 10), k_str |-> Num(2), c0 |-> Num(3), c_avg |-> Num(10),
      pi |-> Num(2), eta |-> Dec(15, 10), rho |-> Dec(6, 100),
      t_max |-> Num(10), dt |-> Num(5), currency |-> "$"],
     [v |-> Dec(4, 10), k_str |-> Num(100), c0 |-> Num(2), c_avg |-> Dec(18, 10),
      pi |-> Dec(15, 100), eta |-> Dec(15, 10), rho |-> Dec(6, 100),
      t_max |-> Num(10), dt |-> Num(5), currency |-> "$"] >>

\* l at construction, and l assigned directly afterwards.
ConstructedRates == {None, Num(1), 0}

AssignedRates == {Num(2), 0, -Dec(5, 10)}

\* loss_type and method arguments: the four kinds and a label that is none;
\* the two methods and a name that is none.
Kinds == LossTypeSet \cup {ASSET}

Methods == {"trapezoid", "quad", "simpson"}

\* Largest no_steps of a sweep.
MaxSteps == 3

\* Arguments of Household.opt_lambda: the default rec_time_max (None) and
\* rec_time_min (0.3) with every no_steps and method, and a non-positive
\* rec_time_min and an explicit rec_time_max.
OptArgs ==
  { [rec_time_max |-> None, rec_time_min |-> Dec(3, 10), no_steps |-> n, method |-> m]
      : n \in 0..MaxSteps, m \in {"trapezoid"} }
  \cup
  { [rec_time_max |-> None, rec_time_min |-> Dec(3, 10), no_steps |-> MaxSteps, method |-> m]
      : m \in Methods }
  \cup
  { [rec_time_max |-> x, rec_time_min |-> y, no_steps |-> MaxSteps, method |-> "trapezoid"]
      : x \in {Num(2)}, y \in {0, Num(1)} }

RECURSIVE SetToSeq(_)
\* The elements of a finite set in some order.
SetToSeq(S) ==
  IF S = {} THEN <<>>
  ELSE LET x == CHOOSE y \in S : TRUE IN <<x>> \o SetToSeq(S \ {x})

OptArgsSeq == SetToSeq(OptArgs)

\* The households as constructed without a rate.
Fresh == Array([i \in 1..Len(HouseholdArgs) |-> Household(HouseholdArgs[i], None).self])

\* opt_lambda_values for every household and argument considered.  It reads
\* only fields that no call changes after construction, so it is computed
\* once per household and looked up by the calls.
OptValues ==
  Array([i \in 1..Len(Fresh) |->
    Array([j \in 1..Len(OptArgsSeq) |-> opt_lambda_values(Fresh[i], OptArgsSeq[j])])])

\* The fields of a Household that no method assigns after construction.
Fixed == {"v", "k_str", "c0", "c_avg", "pi", "eta", "rho", "t_max", "dt", "t", "currency"}

ValuesFor(h, a) ==
  OptValues[CHOOSE i \in 1..Len(Fresh) : \A f \in Fixed : Fresh[i][f] = h[f]]
           [CHOOSE j \in 1..Len(OptArgsSeq) : OptArgsSeq[j] = a]

(* ------------------------------------------------------------------ *)
(* Footprint aggregation: Footprints.aggregate (footprints.py) and     *)
(* PointsToFootprints.write_footprint_file (points_to_footprint.py)    *)
(* ------------------------------------------------------------------ *)

\* A result object is a row [object_id, bf_fid, type, depth, damage]: bf_fid
\* is the id of its footprint, NaN when it has none; damage is the run's
\* summed column, Total Damage of an event run and Risk (EAD) of a risk run.
\* A text joined with "_" is the sequence of its parts.

RECURSIVE Ascending(_)
\* The numbers of a finite set in ascending order (NaN, the largest, last).
Ascending(S) ==
  IF S = {} THEN <<>>
  ELSE Only({ <<x>> \o Ascending(S \ {x}) : x \in {y \in S : \A z \in S : y <= z} })

\* The rows of a table whose footprint id is f, in the table's order.
RowsOf(rows, f) == SelectSeq(rows, LAMBDA r : r.bf_fid = f)

\* The j-th column of a table of rows.
Column(rows, name) == Array([i \in 1..Len(rows) |-> rows[i][name]])

\* np.unique(gdf[field_name], return_counts=True): the distinct ids in
\* ascending order, the NaN of all objects without footprint as one value at
\* the end, each with the number of its rows.
np_unique(rows) ==
  Only({ [values |-> v, counts |-> Array([k \in 1..Len(v) |-> Len(RowsOf(rows, v[k]))])]
         : v \in {Ascending({rows[i].bf_fid : i \in 1..Len(rows)})} })

\* count[0][count[1] > 1][:-1]: the ids with more than one row, but for the
\* last of them.
multiple_bffid(rows) ==
  Only({ Only({ {m[k] : k \in 1..(Len(m) - 1)}
                : m \in {SelectSeq(count.values,
                                   LAMBDA f : Len(RowsOf(rows, f)) > 1)} })
         : count \in {np_unique(rows)} })

\* mode(my_list): the most frequent values, sorted.
mode(types) ==
  LET times(x) == Cardinality({i \in 1..Len(types) : types[i] = x})
      most == {types[i] : i \in {j \in 1..Len(types) :
                 \A k \in 1..Len(types) : times(types[k]) <= times(types[j])}}
  IN  IF "COM" \in most /\ "RES" \in most THEN <<"COM", "RES">>
      ELSE IF "COM" \in most THEN <<"COM">>
      ELSE <<"RES">>

\* The merge of the footprints with the objects: the rows in the order of
\* their footprint id, those without footprint last; a footprint without
\* object gives a row that is removed at once.
merged(objects) ==
  Only({ Array(SelectSeq(
           [k \in 1..(Len(v) * Len(objects)) |->
              Only({ IF j <= Len(rs) THEN rs[j] ELSE <<>>
                     : rs \in {RowsOf(objects, v[((k - 1) \div Len(objects)) + 1])},
                       j \in {((k - 1) % Len(objects)) + 1} })],
           LAMBDA r : r # <<>>))
         : v \in {Ascending({objects[i].bf_fid : i \in 1..Len(objects)})} })

\* The row that stands for the rows rs of one footprint id: aggregated
\* (ids joined, modes of the type joined, mean depth, summed damage) when the
\* id is among the multiple ids, else the first of the rows, which
\* drop_duplicates keeps.
footprint_row(rs, aggregated, run) ==
  IF aggregated
  THEN [object_id |-> Column(rs, "object_id"),
        bf_fid    |-> rs[1].bf_fid,
        type      |-> mode(Column(rs, "type")),
        depth     |-> IF run = "event" THEN DivInt[SumSeq(Column(rs, "depth")), Len(rs)]
                      ELSE None,
        damage    |-> SumSeq(Column(rs, "damage"))]
  ELSE [object_id |-> <<rs[1].object_id>>,
        bf_fid    |-> rs[1].bf_fid,
        type      |-> <<rs[1].type>>,
        depth     |-> IF run = "event" THEN rs[1].depth ELSE None,
        damage    |-> rs[1].damage]

\* The table after aggregation and drop_duplicates, given the ids to
\* aggregate.
aggregated_rows(objects, multiple, run) ==
  Only({ Only({ Array([k \in 1..Len(v) |->
                  footprint_row(RowsOf(gdf, v[k]), v[k] \in multiple, run)])
                : v \in {np_unique(gdf).values} })
         : gdf \in {merged(objects)} })

\* Footprints.aggregate(objects, exposure_columns) with its defaults; spatial
\* tells whether objects has a geometry column (of points), in which case
\* the objects without footprint are added with a shape of their own.
aggregate(objects, run, spatial) ==
  Only({ aggregated_rows(objects, multiple_bffid(gdf), run)
           \o (IF spatial
               THEN Array([i \in 1..Len(RowsOf(objects, NaN)) |->
                      footprint_row(<<RowsOf(objects, NaN)[i]>>, FALSE, run)])
               ELSE <<>>)
         : gdf \in {merged(objects)} })

\* PointsToFootprints.write_footprint_file(footprints, points, out_path): the
\* table written and returned.
write_footprint_file(points, run) ==
  Only({ aggregated_rows(points, multiple_bffid(gdf), run)
         : gdf \in {merged(points)} })

\* The tables considered: up to MaxObjects objects with the ids 1393, 1394,
\* ..., each of one of two kinds and attached to one of two footprints or to
\* none.
MaxObjects == 4

FootprintIds == {1, 2}

ObjectKinds ==
  {[type |-> "RES", depth |-> Num(1), damage |-> Num(10)],
   [type |-> "COM", depth |-> Num(3), damage |-> Num(25)]}

ObjectTables ==
  UNION {
    {Array([i \in 1..n |->
        [object_id |-> 1392 + i, bf_fid |-> f[i][2], type |-> f[i][1].type,
         depth |-> f[i][1].depth, damage |-> f[i][1].damage]])
     : f \in [1..n -> ObjectKinds \X (FootprintIds \cup {NaN})]}
    : n \in 1..MaxObjects}

(* ------------------------------------------------------------------ *)
(* InfographicsParser._figures_list_to_html (infographics.py)          *)
(* ------------------------------------------------------------------ *)

\* A path is [str, name]: str tells whether it was passed as a str rather
\* than a Path, name is the file name cut at its dots ("styles", ".css").
\* The file system maps a name to a file [there, text]: whether there is
\* such a file, and the pages written to it.
Absent == [there |-> FALSE, text |-> <<>>]

ErrFigures == "ValueError: Only 3 figures are allowed"

ErrNoStylesheet == "FileNotFoundError: Stylesheet not found"

ErrNotCss == "ValueError: Stylesheet must be a .css file"

ErrFileExists == "FileExistsError: File already exists"

ErrNotHtml == "ValueError: File path must be a .html file"

\* Path(p).
Path(p) == [p EXCEPT !.str = FALSE]

\* Path.exists(p).
PathExists(fs, p) == fs[p.name] # Absent

\* p.suffix: the last dotted part of the name, "" without one.
suffix(p) == IF Len(p.name) > 1 THEN p.name[Len(p.name)] ELSE ""

\* fig.to_html(): the page plotly writes for a figure, as its parts; the
\* figure's own part stands under the figure's name.
to_html(fig) ==
  <<"<html>", "<head>", "</head>", "<body>", fig, "</body>", "</html>">>

RECURSIVE split(_, _)
\* html.split(sep): the pieces of html between the occurrences of sep.
split(html, sep) ==
  IF \A i \in 1..Len(html) : html[i] # sep THEN <<html>>
  ELSE Only({ <<SubSeq(html, 1, i - 1)>> \o split(SubSeq(html, i + 1, Len(html)), sep)
              : i \in {CHOOSE j \in 1..Len(html) :
                         html[j] = sep /\ \A k \in 1..(j - 1) : html[k] # sep} })

\* figs[i].to_html().split("<body>")[1].split("</body>")[0] if len(figs) > i
\* else "" (i counted from 1 here).
figure_html(figs, i) ==
  IF Len(figs) >= i
  THEN split(split(to_html(figs[i]), "<body>")[2], "</body>")[1]
  ELSE <<>>

\* The page written: the stylesheet's link and the three figures.
page(figs, stylesheet) ==
  [href |-> stylesheet.name, top_half |-> figure_html(figs, 1),
   bottom_left |-> figure_html(figs, 2), bottom_right |-> figure_html(figs, 3)]

\* A writer that does not look whether the output file is there already.
figures_list_to_html_overwrite(fs, figs, file_path, stylesheet) ==
  IF Len(figs) > 3 THEN [err |-> ErrFigures, fs |-> fs, log |-> <<>>]
  ELSE IF ~PathExists(fs, Path(stylesheet))
    THEN [err |-> ErrNoStylesheet, fs |-> fs, log |-> <<>>]
  ELSE IF suffix(Path(stylesheet)) # ".css"
    THEN [err |-> ErrNotCss, fs |-> fs, log |-> <<>>]
  ELSE IF suffix(Path(file_path)) # ".html"
    THEN [err |-> ErrNotHtml, fs |-> fs, log |-> <<>>]
  ELSE [err |-> "none",
        fs  |-> [fs EXCEPT ![file_path.name] =
                   [there |-> TRUE, text |-> <<page(figs, Path(stylesheet))>>]],
        log |-> <<"open", "write", "close">>]

\* InfographicsParser._figures_list_to_html(figs, file_path, stylesheet) on
\* the file system fs: the error raised ("none" on return), the file system
\* left behind and the operations done on the output file, in their order.
figures_list_to_html(fs, figs, file_path, stylesheet) ==
  IF Len(figs) > 3 THEN [err |-> ErrFigures, fs |-> fs, log |-> <<>>]
  ELSE IF ~PathExists(fs, Path(stylesheet))
    THEN [err |-> ErrNoStylesheet, fs |-> fs, log |-> <<>>]
  ELSE IF suffix(Path(stylesheet)) # ".css"
    THEN [err |-> ErrNotCss, fs |-> fs, log |-> <<>>]
  ELSE IF PathExists(fs, Path(file_path))
    THEN [err |-> ErrFileExists, fs |-> fs, log |-> <<>>]
  ELSE IF suffix(Path(file_path)) # ".html"
    THEN [err |-> ErrNotHtml, fs |-> fs, log |-> <<>>]
  ELSE Only({ [err |-> "none",
               fs  |-> [opened EXCEPT ![file_path.name].text =
                                        @ \o <<page(figs, Path(stylesheet))>>],
               log |-> <<"open", "write", "close">>]
              : opened \in {[fs EXCEPT ![file_path.name] =
                                          [there |-> TRUE, text |-> <<>>]]} })

\* The calls considered: up to MaxFigures figures, a stylesheet and an output
\* path of several names, each passed as str or as Path, and each there
\* already or not.
MaxFigures == 4

StylesheetNames == {<<"styles", ".css">>, <<"styles", ".txt">>, <<"styles">>}

Figures == <<"damages", "homes", "roads", "people", "shelters", "schools">>

OutputNames == {<<"infographic", ".html">>, <<"infographic", ".txt">>,
                <<"infographic", ".html", ".bak">>}

OldContent ==
  [there |-> TRUE,
   text  |-> <<[href |-> <<"old", ".css">>, top_half |-> <<>>,
                bottom_left |-> <<>>, bottom_right |-> <<>>]>>]

(* ------------------------------------------------------------------ *)
(* InfographicsParser._get_impact_metrics (infographics.py)            *)
(* ------------------------------------------------------------------ *)

\* Here a path is the sequence of its parts and the file system the set of
\* the paths of its files. A step of the log is [op, path]: an operation done
\* on a path.
ErrNoResults == "FileNotFoundError: FIAT results file not found"

ErrNoConfig == "FileNotFoundError: Metrics configuration file not found"

ErrNoMetrics == "FileNotFoundError: The file does not exist."

\* path.joinpath(*parts).
joinpath(path, parts) == Array(path \o parts)

\* f"{scenario_name}_metrics.csv".
metrics_file_name(scenario_name) ==
  IF scenario_name = "current" THEN "current_metrics.csv" ELSE "future_metrics.csv"

\* database_output_path.joinpath("results", scenario_name, "fiat_model",
\* "output", "output.csv").
csv_file_of(database_path, scenario_name) ==
  joinpath(joinpath(database_path, <<"output">>),
           <<"results", scenario_name, "fiat_model", "output", "output.csv">>)

\* database_static_path.joinpath("templates", "infometrics",
\* "metrics_config.toml").
metrics_config_path_of(database_path) ==
  joinpath(joinpath(database_path, <<"static">>),
           <<"templates", "infometrics", "metrics_config.toml">>)

\* database_output_path.joinpath("infometrics", f"{scenario_name}_metrics.csv").
metrics_outputs_path_of(database_path, scenario_name) ==
  joinpath(joinpath(database_path, <<"output">>),
           <<"infometrics", metrics_file_name(scenario_name)>>)

\* MetricsFileWriter(config).parse_metrics_to_file(df_results, metrics_path,
\* write_aggregate=None): writes the metrics file and returns its path.
parse_metrics_to_file(fs, metrics_path) ==
  [fs |-> fs \cup {metrics_path}, path |-> metrics_path,
   log |-> <<[op |-> "write", path |-> metrics_path]>>]

\* MetricsFileReader(path).read_metrics_from_file(): the reader looks for
\* the file by os.path.exists, then reads it.
read_metrics_from_file(fs, path) ==
  IF path \notin fs
  THEN [err |-> ErrNoMetrics, log |-> <<[op |-> "os.path.exists", path |-> path]>>]
  ELSE [err |-> "none",
        log |-> <<[op |-> "os.path.exists", path |-> path],
                  [op |-> "pd.read_csv", path |-> path]>>]

\* The steps after the two checks: read the results, write and read the
\* metrics, remove the metrics file unless it is to be kept.
impact_metrics_of(fs, csv_file, config, metrics_path, keep_files) ==
  Only({ Only({
    IF read.err # "none"
    THEN [err |-> read.err, fs |-> written.fs,
          log |-> <<[op |-> "Path.exists", path |-> csv_file],
                    [op |-> "Path.exists", path |-> config],
                    [op |-> "pd.read_csv", path |-> csv_file]>>
                  \o written.log \o read.log]
    ELSE [err |-> "none",
          fs  |-> IF keep_files THEN written.fs ELSE written.fs \ {written.path},
          log |-> <<[op |-> "Path.exists", path |-> csv_file],
                    [op |-> "Path.exists", path |-> config],
                    [op |-> "pd.read_csv", path |-> csv_file]>>
                  \o written.log \o read.log
                  \o (IF keep_files THEN <<>>
                      ELSE <<[op |-> "os.remove", path |-> written.path]>>)]
    : read \in {read_metrics_from_file(written.fs, written.path)} })
    : written \in {parse_metrics_to_file(fs, metrics_path)} })

\* A reader of the metrics that looks for the configuration first.
get_impact_metrics_config_first(fs, database_path, scenario_name, keep_files) ==
  Only({
    IF config \notin fs
    THEN [err |-> ErrNoConfig, fs |-> fs,
          log |-> <<[op |-> "Path.exists", path |-> config]>>]
    ELSE Only({
      IF csv_file \notin fs
      THEN [err |-> ErrNoResults, fs |-> fs,
            log |-> <<[op |-> "Path.exists", path |-> config],
                      [op |-> "Path.exists", path |-> csv_file]>>]
      ELSE impact_metrics_of(fs, csv_file, config,
             metrics_outputs_path_of(Path(database_path).name, scenario_name),
             keep_files)
      : csv_file \in {csv_file_of(Path(database_path).name, scenario_name)} })
    : config \in {metrics_config_path_of(Path(database_path).name)} })

\* InfographicsParser._get_impact_metrics(database_path, scenario_name,
\* keep_files) on the file system fs: the error raised ("none" on return),
\* the file system left behind and the steps done, in their order.
get_impact_metrics(fs, database_path, scenario_name, keep_files) ==
  Only({
    IF csv_file \notin fs
    THEN [err |-> ErrNoResults, fs |-> fs,
          log |-> <<[op |-> "Path.exists", path |-> csv_file]>>]
    ELSE Only({
      IF config \notin fs
      THEN [err |-> ErrNoConfig, fs |-> fs,
            log |-> <<[op |-> "Path.exists", path |-> csv_file],
                      [op |-> "Path.exists", path |-> config]>>]
      ELSE impact_metrics_of(fs, csv_file, config,
             metrics_outputs_path_of(Path(database_path).name, scenario_name),
             keep_files)
      : config \in {metrics_config_path_of(Path(database_path).name)} })
    : csv_file \in {csv_file_of(Path(database_path).name, scenario_name)} })

\* The calls considered: two databases, passed as str or as Path, and two
\* scenarios.
DatabasePaths == {<<"data">>, <<"sites", "delft">>}

ScenarioNames == {"current", "future"}

(* ------------------------------------------------------------------ *)
(* ExceedanceProbabilityCalculator (fiat_write_return_period_threshold) *)
(* ------------------------------------------------------------------ *)

\* A dataframe is [columns, rows]: the names of its columns, each the
\* sequence of its characters ("something (10Y)"), and its rows, each the
\* sequence of its values in the order of the columns.
RECURSIVE to_int(_, _)
\* int(digits), with acc the number read so far.
to_int(digits, acc) ==
  IF digits = <<>> THEN acc
  ELSE to_int(Tail(digits),
         10 * acc + (CHOOSE d \in 0..9 :
            <<"0", "1", "2", "3", "4", "5", "6", "7", "8", "9">>[d + 1] = Head(digits)))

\* int(col.split('(')[1][:-2]).
return_period_of(col) ==
  Only({ to_int(SubSeq(part, 1, Len(part) - 2), 0) : part \in {split(col, "(")[2]} })

RECURSIVE bisection(_, _, _, _)
\* while (imin < imax): the index found by bisection (numpy
\* binary_search_with_guess), indices counted from 0.
bisection(key, arr, imin, imax) ==
  IF imin >= imax THEN imin - 1
  ELSE Only({ IF Le[arr[imid + 1], key]
              THEN bisection(key, arr, imid + 1, imax)
              ELSE bisection(key, arr, imin, imid)
              : imid \in {imin + ((imax - imin) \div 2)} })

RECURSIVE linear_search(_, _, _)
\* for (i = i0; i < len && key >= arr[i]; i++); return i - 1.
linear_search(key, arr, i) ==
  IF i < Len(arr) /\ Le[arr[i + 1], key] THEN linear_search(key, arr, i + 1)
  ELSE i - 1

\* binary_search_with_guess(key, arr, len, 0): the index j, counted from 0,
\* of the interval of arr that holds key; -1 below arr, len above it. A
\* comparison with NaN is false.
binary_search_with_guess(key, arr) ==
  IF Lt[arr[Len(arr)], key] THEN Len(arr)
  ELSE IF Lt[key, arr[1]] THEN -1
  ELSE IF Len(arr) <= 4 THEN linear_search(key, arr, 1)
  ELSE IF Lt[key, arr[2]]
    THEN (IF Lt[key, arr[1]] THEN bisection(key, arr, 0, 0) ELSE 0)
  ELSE IF Lt[key, arr[3]] THEN 1
  ELSE IF Lt[key, arr[4]] THEN 2
  ELSE bisection(key, arr, 3,
         IF 1 < Len(arr) - 9 /\ Lt[key, arr[10]] THEN 9 ELSE Len(arr))

\* np.interp(x, xp, fp) for one number x that is not NaN.
np_interp(x, xp, fp) ==
  IF Len(xp) = 1
  THEN (IF Lt[x, xp[1]] THEN fp[1] ELSE IF Lt[xp[1], x] THEN fp[Len(fp)] ELSE fp[1])
  ELSE Only({
    IF j = -1 THEN fp[1]
    ELSE IF j = Len(xp) THEN fp[Len(fp)]
    ELSE IF j = Len(xp) - 1 THEN fp[j + 1]
    ELSE IF xp[j + 1] = x THEN fp[j + 1]
    ELSE IF xp[j + 1] = NaN \/ xp[j + 2] = NaN \/ xp[j + 1] = xp[j + 2] THEN NaN
    ELSE Add[Mul[Div[fp[j + 2] - fp[j + 1], xp[j + 2] - xp[j + 1]], x - xp[j + 1]],
             fp[j + 1]]
    : j \in {binary_search_with_guess(x, xp)} })

\* An interpolation that keeps the last return period as a result.
custom_interp_unbounded(x, xp, fp) ==
  Only({ IF Le[res, fp[1]] THEN fp[1] ELSE res
         : res \in {np_interp(x, xp, fp)} })

\* custom_interp(x, xp, fp): the return period at which x is first
\* exceeded, NaN when it is not exceeded within the return periods.
custom_interp(x, xp, fp) ==
  Only({ IF res = fp[Len(fp)] THEN NaN
         ELSE IF Le[res, fp[1]] THEN fp[1]
         ELSE res
         : res \in {np_interp(x, xp, fp)} })

\* np.round(p, 1) for p >= 0.
round1(p) == IF p = NaN THEN NaN ELSE RoundDivNat(p, Scale \div 10) * (Scale \div 10)

\* ExceedanceProbabilityCalculator._calculate(df, return_periods, threshold,
\* T): for each row NaN when all its values are NaN and 0 otherwise,
\* replaced by the probability where a return period was found.
exceedance_probability(values, return_periods, threshold, T) ==
  Array([i \in 1..Len(values) |->
    Only({ IF RP # NaN
           THEN round1(Mul[Scale - Exp[Neg[Div[T, RP]]], Num(100)])
           ELSE IF \A k \in 1..Len(values[i]) : values[i][k] = NaN THEN NaN
           ELSE 0
           : RP \in {custom_interp(threshold, values[i], return_periods)} })])

\* ExceedanceProbabilityCalculator(column_prefix).calculate(df, threshold, T),
\* every column of df bearing the prefix.
calculate(df, threshold, T) ==
  exceedance_probability(df.rows,
    Array([k \in 1..Len(df.columns) |-> Num(return_period_of(df.columns[k]))]),
    threshold, T)

\* The dataframes considered: the first 1 to MaxPeriods of the columns
\* "something (2Y)", ..., and up to two rows of values that may be missing,
\* below, at or above the threshold, in any order.
MaxPeriods == 5

PeriodColumns ==
  <<<<"something ", "(", "2", "Y", ")">>, <<"something ", "(", "5", "Y", ")">>,
    <<"something ", "(", "1", "0", "Y", ")">>, <<"something ", "(", "2", "5", "Y", ")">>,
    <<"something ", "(", "5", "0", "Y", ")">>, <<"something ", "(", "1", "0", "0", "Y", ")">>>>

DepthValues == {NaN, 0, Dec(2, 10), Dec(5, 10)}

OtherRows(n) == {[k \in 1..n |-> NaN], [k \in 1..n |-> Dec(k, 10)]}

(* ------------------------------------------------------------------ *)
(* Pure-function calls: recovery_time and recovery_rate                *)
(* ------------------------------------------------------------------ *)

\* rate / time arguments: floats (positive, zero, negative, NaN) and arrays
\* of length 0 to MaxBatch.
MaxBatch == 2

FloatArgs == {Dec(5, 10), Num(1), Num(2), 0, -Num(1), NaN}

RECURSIVE ArraysOf(_, _)
\* The arrays of length n over the elements E.
ArraysOf(E, n) ==
  IF n = 0 THEN {<<>>}
  ELSE {Append(s, e) : s \in ArraysOf(E, n - 1), e \in E}

ArrayArgs == UNION {ArraysOf({Num(2), 0}, n) : n \in 0..MaxBatch}

KernelArgs == {Scalar(x) : x \in FloatArgs} \cup {Batch(s) : s \in ArrayArgs}

\* rebuilt_per arguments: inside [0, 100) with both ends, and outside.
Percentages == {-Num(5), 0, Num(1), Num(50), Num(95), Num(100), Num(120)}

\* Arguments of the Loss classes: grids of 0 to 3 points, one rate or a
\* batch of two, with and without discount; the parameters of the first
\* household, and the same with a consumption c0 below the consumption loss,
\* with eta = 1 (logarithmic utility) and with no vulnerability (v = 0).
LossGrids == {<<>>, <<0>>, <<0, Num(1)>>, <<0, Num(1), Num(2)>>}

LossRates == {<<Dec(5, 10)>>, <<Num(1)>>, <<Num(2)>>, <<Num(1), Num(2)>>,
              <<Num(2), Dec(5, 10), Num(1)>>}

LossParams ==
  {HouseholdArgs[1], [HouseholdArgs[1] EXCEPT !.c0 = Num(2)],
   [HouseholdArgs[1] EXCEPT !.eta = Num(1)], [HouseholdArgs[1] EXCEPT !.v = 0]}

Discounts == {0, Dec(6, 100)}

\* recovery_rate(recovery_time(rate, p), p): the second call is made with what
\* the first returned.
round_trip(rate, p) ==
  Only({ IF T.err # "none" THEN T ELSE recovery_rate(T.val, p)
         : T \in {recovery_time(rate, p)} })

(* ------------------------------------------------------------------ *)
(* State machine                                                       *)
(* ------------------------------------------------------------------ *)

\* self: the Household, as its attribute dictionary (Empty: none exists).
\* call: the last call made on it, with its arguments, the exception it
\*       raised ("none": it returned) and the value it returned.
\* ncalls: the number of calls made.
\* kernel: the last call of a pure function, with its argument and outcome.
\* warnings: the state of Python's warnings module, shared by the whole
\*       process: the filters put in front of the interpreter's own, and the
\*       registry of the warnings already shown for methods.py.
VARIABLES self, call, ncalls, kernel, warnings

vars == <<self, call, ncalls, kernel, warnings>>

IgnoreIntegration == [action |-> "ignore", category |-> "IntegrationWarning"]

UtilityWarning ==
  "UserWarning: Utility is calculated with the natural logarithm of the consumption when eta == 1."

NoWarnings == [filters |-> <<>>, registry |-> {}]

\* warnings.filterwarnings(action, category=...): the entry is put in front
\* of the list, an equal entry further down being removed.
filterwarnings(w, item) ==
  [w EXCEPT !.filters = <<item>> \o SelectSeq(@, LAMBDA f : f # item)]

\* warnings.warn(text, UserWarning): shown once per place under the default
\* action and then kept in the registry.
warn(w, text) == [w EXCEPT !.registry = @ \cup {text}]

\* The warnings module after a call with effect e.
Warned(w, e) ==
  Only({ IF e.warned THEN warn(w1, UtilityWarning) ELSE w1
         : w1 \in {IF e.filtered THEN filterwarnings(w, IgnoreIntegration) ELSE w} })

Exists == DOMAIN self # {}

NoCall == [op |-> "none", args |-> <<>>, err |-> "none", ret |-> None]

NoKernel == [fn |-> "none", x |-> Scalar(0), p |-> 0, out |-> Fail("none")]

Init ==
  /\ self = Empty
  /\ call = NoCall
  /\ ncalls = 0
  /\ kernel = NoKernel
  /\ warnings = NoWarnings

\* The caller's bookkeeping of a call with outcome r and effect e on the
\* warnings module.
Called(op, args, r, e) ==
  /\ ncalls < MaxCalls
  /\ self' = r.self
  /\ call' = [op |-> op, args |-> args, err |-> r.err, ret |-> r.ret]
  /\ ncalls' = ncalls + 1
  /\ warnings' = Warned(warnings, e)
  /\ UNCHANGED kernel

\* h = Household(..., l = l): a failed construction leaves no object.
Construct ==
  /\ ~Exists
  /\ \E i \in 1..Len(HouseholdArgs), l \in ConstructedRates :
       Called("__init__", [household |-> i, l |-> l], Household(HouseholdArgs[i], l),
              NoEffect)

\* h.l = x, the direct assignment of the recovery rate.
AssignL ==
  /\ Exists
  /\ \E x \in AssignedRates :
       Called("l=", [l |-> x], Return([self EXCEPT !.l = x], None), NoEffect)

CalcLoss ==
  /\ Exists
  /\ \E loss_type \in Kinds, method \in Methods :
       Called("calc_loss", [loss_type |-> loss_type, method |-> method],
              calc_loss(self, loss_type, method),
              calc_loss_effect(self, loss_type, method))

GetLosses ==
  /\ Exists
  /\ \E method \in Methods :
       Called("get_losses", [method |-> method], get_losses(self, method),
              get_losses_effect(self, method))

OptLambda ==
  /\ Exists
  /\ \E a \in OptArgs :
       Called("opt_lambda", a, Household_opt_lambda(self, ValuesFor(self, a)),
              opt_lambda_effect(self, a))

Next == Construct \/ AssignL \/ CalcLoss \/ GetLosses \/ OptLambda

Spec == Init /\ [][Next]_vars

\* The pure functions called on their own.
RecoveryTime ==
  /\ \E x \in KernelArgs, p \in Percentages :
       kernel' = [fn |-> "recovery_time", x |-> x, p |-> p, out |-> recovery_time(x, p)]
  /\ UNCHANGED <<self, call, ncalls, warnings>>

RecoveryRate ==
  /\ \E x \in KernelArgs, p \in Percentages :
       kernel' = [fn |-> "recovery_rate", x |-> x, p |-> p, out |-> recovery_rate(x, p)]
  /\ UNCHANGED <<self, call, ncalls, warnings>>

RoundTrip ==
  /\ \E x \in KernelArgs, p \in Percentages :
       kernel' = [fn |-> "round_trip", x |-> x, p |-> p, out |-> round_trip(x, p)]
  /\ UNCHANGED <<self, call, ncalls, warnings>>

KernelNext == RecoveryTime \/ RecoveryRate \/ RoundTrip

KernelSpec == Init /\ [][KernelNext]_vars

\* The Loss classes on their own: a Loss object built directly from a grid,
\* rates and the household parameters (kernel.x), and the arguments of the
\* call made on it (kernel.p).
LossInit ==
  /\ self = Empty
  /\ call = NoCall
  /\ ncalls = 0
  /\ warnings = NoWarnings
  /\ \E kind \in LossTypeSet, t \in LossGrids, l \in LossRates,
        p \in LossParams, rho \in Discounts, method \in Methods :
       kernel = [fn |-> "Loss", x |-> Loss(kind, t, l, p),
                 p |-> [rho |-> rho, method |-> method], out |-> Fail("none")]

\* loss.total(rho, method).
LossTotal ==
  /\ kernel.fn = "Loss"
  /\ kernel' = [kernel EXCEPT !.fn = "total",
                  !.out = Loss_total(kernel.x, kernel.p.rho, kernel.p.method)]
  /\ warnings' = Warned(warnings, Loss_total_effect(kernel.x, kernel.p.method))
  /\ UNCHANGED <<self, call, ncalls>>

\* loss.losses_t.
LossesT ==
  /\ kernel.fn = "Loss"
  /\ kernel' = [kernel EXCEPT !.fn = "losses_t", !.out = Loss_losses_t(kernel.x)]
  /\ warnings' = Warned(warnings, fun_effect(kernel.x))
  /\ UNCHANGED <<self, call, ncalls>>

LossNext == LossTotal \/ LossesT

LossSpec == LossInit /\ [][LossNext]_vars

\* Footprint aggregation on its own: a table of result objects (kernel.x)
\* of an event or a risk run (kernel.p).
FootprintInit ==
  /\ self = Empty
  /\ call = NoCall
  /\ ncalls = 0
  /\ warnings = NoWarnings
  /\ \E objects \in ObjectTables, run \in {"event", "risk"}, spatial \in BOOLEAN :
       kernel = [fn |-> "Footprints", x |-> objects,
                 p |-> [run |-> run, spatial |-> spatial], out |-> <<>>]

\* footprints.aggregate(objects, exposure_columns).
Aggregate ==
  /\ kernel.fn = "Footprints"
  /\ kernel' = [kernel EXCEPT !.fn = "aggregate",
                  !.out = aggregate(kernel.x, kernel.p.run, kernel.p.spatial)]
  /\ UNCHANGED <<self, call, ncalls, warnings>>

\* PointsToFootprints.write_footprint_file(footprints, points, out_path).
WriteFootprintFile ==
  /\ kernel.fn = "Footprints"
  /\ ~kernel.p.spatial
  /\ kernel' = [kernel EXCEPT !.fn = "write_footprint_file",
                  !.out = write_footprint_file(kernel.x, kernel.p.run)]
  /\ UNCHANGED <<self, call, ncalls, warnings>>

FootprintNext == Aggregate \/ WriteFootprintFile

FootprintSpec == FootprintInit /\ [][FootprintNext]_vars

\* The writing of an infographic on its own: a file system (kernel.p) and the
\* arguments of one call (kernel.x).
HtmlInit ==
  /\ self = Empty
  /\ call = NoCall
  /\ ncalls = 0
  /\ warnings = NoWarnings
  /\ \E n \in 0..MaxFigures, s \in StylesheetNames, f \in OutputNames,
        s_str \in BOOLEAN, f_str \in BOOLEAN,
        s_there \in BOOLEAN, f_there \in BOOLEAN :
       kernel = [fn |-> "InfographicsParser",
                 x  |-> [figs |-> Array(SubSeq(Figures, 1, n)),
                         file_path |-> [str |-> f_str, name |-> f],
                         stylesheet |-> [str |-> s_str, name |-> s]],
                 p  |-> [nm \in StylesheetNames \cup OutputNames |->
                           IF (nm = s /\ s_there) \/ (nm = f /\ f_there)
                           THEN OldContent ELSE Absent],
                 out |-> [err |-> "none", fs |-> <<>>, log |-> <<>>]]

\* InfographicsParser._figures_list_to_html(figs, file_path, stylesheet).
FiguresListToHtml ==
  /\ kernel.fn = "InfographicsParser"
  /\ kernel' = [kernel EXCEPT !.fn = "_figures_list_to_html",
                  !.out = figures_list_to_html(kernel.p, kernel.x.figs,
                            kernel.x.file_path, kernel.x.stylesheet)]
  /\ UNCHANGED <<self, call, ncalls, warnings>>

HtmlNext == FiguresListToHtml

HtmlSpec == HtmlInit /\ [][HtmlNext]_vars

\* The reading of the impact metrics on its own: a file system (kernel.p) and
\* the arguments of one call (kernel.x).
MetricsInit ==
  /\ self = Empty
  /\ call = NoCall
  /\ ncalls = 0
  /\ warnings = NoWarnings
  /\ \E db \in DatabasePaths, db_str \in BOOLEAN, scenario \in ScenarioNames,
        keep_files \in BOOLEAN, other \in DatabasePaths :
     \E files \in SUBSET {csv_file_of(db, scenario), metrics_config_path_of(db),
                          metrics_outputs_path_of(db, scenario)} :
       kernel = [fn |-> "InfographicsParser.metrics",
                 x  |-> [database_path |-> [str |-> db_str, name |-> db],
                         scenario_name |-> scenario, keep_files |-> keep_files],
                 p  |-> files \cup {metrics_config_path_of(other)},
                 out |-> [err |-> "none", fs |-> {}, log |-> <<>>]]

\* InfographicsParser._get_impact_metrics(database_path, scenario_name,
\* keep_files).
GetImpactMetrics ==
  /\ kernel.fn = "InfographicsParser.metrics"
  /\ kernel' = [kernel EXCEPT !.fn = "_get_impact_metrics",
                  !.out = get_impact_metrics(kernel.p, kernel.x.database_path,
                            kernel.x.scenario_name, kernel.x.keep_files)]
  /\ UNCHANGED <<self, call, ncalls, warnings>>

MetricsNext == GetImpactMetrics

MetricsSpec == MetricsInit /\ [][MetricsNext]_vars

\* The exceedance probability on its own: a dataframe (kernel.x) with a
\* threshold and a time horizon (kernel.p). kernel.x.at is the place of the
\* row drawn freely among the rows.
ExceedanceInit ==
  /\ self = Empty
  /\ call = NoCall
  /\ ncalls = 0
  /\ warnings = NoWarnings
  /\ \E n \in 1..MaxPeriods :
     \E row \in [1..n -> DepthValues], others \in {<<>>} \cup {<<o>> : o \in OtherRows(n)},
        first \in BOOLEAN :
       /\ first \/ others # <<>>
       /\ kernel = [fn |-> "ExceedanceProbabilityCalculator",
                    x  |-> [columns |-> SubSeq(PeriodColumns, 1, n),
                            rows |-> IF first THEN <<row>> \o others ELSE others \o <<row>>,
                            at |-> IF first THEN 1 ELSE 2],
                    p  |-> [threshold |-> Dec(2, 10), T |-> Num(30)],
                    out |-> <<>>]

\* calculator.calculate(df, threshold, T).
Calculate ==
  /\ kernel.fn = "ExceedanceProbabilityCalculator"
  /\ kernel' = [kernel EXCEPT !.fn = "calculate",
                  !.out = calculate(kernel.x, kernel.p.threshold, kernel.p.T)]
  /\ UNCHANGED <<self, call, ncalls, warnings>>

ExceedanceNext == Calculate

ExceedanceSpec == ExceedanceInit /\ [][ExceedanceNext]_vars

\* Two Households side by side: kernel.x.a is built from constructor
\* arguments considered above with l = 1, kernel.x.b from the same v, k_str,
\* c0, pi, eta, t_max and dt with a rho, c_avg, currency and l of its own.
\* The same call is then made on both.
\* How a Household of a pair differs from the one built from HouseholdArgs
\* with l = 1: not at all (the first of each pair); in rho alone; in rho,
\* c_avg, currency and l.
TwinChanges ==
  << [rho |-> FALSE, rest |-> FALSE, l |-> Num(1)],
     [rho |-> TRUE, rest |-> FALSE, l |-> Num(1)],
     [rho |-> TRUE, rest |-> TRUE, l |-> Num(2)] >>

\* Household i with the k-th change.
Twin(i, k) ==
  Only({ Household([HouseholdArgs[i] EXCEPT !.rho = IF c.rho THEN 0 ELSE @,
                                            !.c_avg = IF c.rest THEN Num(20) ELSE @,
                                            !.currency = IF c.rest THEN "EUR" ELSE @],
                   c.l).self
         : c \in {TwinChanges[k]} })

Twins ==
  Array([i \in 1..Len(HouseholdArgs) |-> Array([k \in 1..Len(TwinChanges) |-> Twin(i, k)])])

\* The opt_lambda arguments tried on the pairs: the full sweep by each
\* method, and the explicit recovery times.
TwinArgsSeq == SetToSeq({a \in OptArgs : a.no_steps = MaxSteps})

\* opt_lambda_values computed on every Household of every pair, for each of
\* these arguments.
TwinValues ==
  Array([i \in 1..Len(Twins) |-> Array([k \in 1..Len(Twins[i]) |->
    Array([j \in 1..Len(TwinArgsSeq) |-> opt_lambda_values(Twins[i][k], TwinArgsSeq[j])])])])

TwinValuesFor(h, a) ==
  Only({ TwinValues[ik[1]][ik[2]][CHOOSE j \in 1..Len(TwinArgsSeq) : TwinArgsSeq[j] = a]
         : ik \in {CHOOSE p \in (1..Len(Twins)) \X (1..Len(TwinChanges)) :
                     Twins[p[1]][p[2]] = h} })

TwinInit ==
  /\ self = Empty
  /\ call = NoCall
  /\ ncalls = 0
  /\ warnings = NoWarnings
  /\ \E i \in 1..Len(HouseholdArgs), k \in 2..Len(TwinChanges) :
       kernel = [fn |-> "Households",
                 x  |-> [a |-> Twins[i][1], b |-> Twins[i][k]],
                 p  |-> <<>>,
                 out |-> <<>>]

\* a.opt_lambda(...) and b.opt_lambda(...) with the same arguments.
TwinOptLambda ==
  /\ kernel.fn = "Households"
  /\ \E n \in 1..Len(TwinArgsSeq) :
       kernel' = [kernel EXCEPT !.fn = "opt_lambda", !.p = TwinArgsSeq[n],
                    !.out = Array([m \in 1..2 |->
                              Only({ Household_opt_lambda(h, TwinValuesFor(h, TwinArgsSeq[n]))
                                     : h \in {IF m = 1 THEN kernel.x.a
                                                       ELSE kernel.x.b} })])]
  /\ UNCHANGED <<self, call, ncalls, warnings>>

\* a.calc_loss(loss_type, method) and b.calc_loss(loss_type, method).
TwinCalcLoss ==
  /\ kernel.fn = "Households"
  /\ \E loss_type \in LossTypeSet, method \in Methods :
       kernel' = [kernel EXCEPT !.fn = "calc_loss",
                    !.p = [loss_type |-> loss_type, method |-> method],
                    !.out = <<calc_loss(kernel.x.a, loss_type, method),
                              calc_loss(kernel.x.b, loss_type, method)>>]
  /\ UNCHANGED <<self, call, ncalls, warnings>>

TwinNext == TwinOptLambda \/ TwinCalcLoss

TwinSpec == TwinInit /\ [][TwinNext]_vars

(* ------------------------------------------------------------------ *)
(* Household.plot_loss and Household.plot_consumption                  *)
(* ------------------------------------------------------------------ *)

ErrNotCalculated == "ValueError: losses have not been calculated."

ErrInvalidType == "ValueError: Invalid type. Must be one of the LossType values."

ErrKey == "KeyError"

ErrNoRecoveryTime == "AttributeError: 'Household' object has no attribute 'recovery_time'"

ErrFormatNone == "TypeError: unsupported format string passed to NoneType.__format__"

ErrUnbound == "UnboundLocalError: local variable 'ax_given' referenced before assignment"

\* The end of a plotting call: the exception or "none", what was returned
\* ("Figure", "None", or "raised"), and the number of figures the call
\* created with plt.subplots.
Plotted(e, r, n) == [err |-> e, ret |-> r, figures |-> n]

\* Household.plot_loss(loss_type, ax), ax being "None" or "axes".  ax_given
\* is assigned only in the branch that creates the figure, and is read at the
\* end of every call.
plot_loss(h, loss_type, ax) ==
  IF loss_type \notin DOMAIN h.time_series THEN Plotted(ErrNotCalculated, "raised", 0)
  ELSE IF loss_type \notin LossTypeSet THEN Plotted(ErrInvalidType, "raised", 0)
  ELSE Only({
    IF loss_type \notin DOMAIN h.total_losses THEN Plotted(ErrKey, "raised", n)
    ELSE IF ax # "None" THEN Plotted(ErrUnbound, "raised", n)
    ELSE Plotted("none", "Figure", n)
    : n \in {IF ax = "None" THEN 1 ELSE 0} })

\* Household.plot_consumption(ax).  The name ax is bound to the new axes
\* when none was given, so the closing "if ax is None: return fig" never
\* returns the figure.
plot_consumption(h, ax) ==
  IF CONSUMPTION \notin DOMAIN h.time_series THEN Plotted(ErrNotCalculated, "raised", 0)
  ELSE Only({
    IF INCOME \notin DOMAIN h.total_losses THEN Plotted(ErrKey, "raised", n)
    ELSE IF INCOME \notin DOMAIN h.time_series THEN Plotted(ErrKey, "raised", n)
    ELSE IF RECONSTRUCTION \notin DOMAIN h.total_losses THEN Plotted(ErrKey, "raised", n)
    ELSE IF "recovery_time" \notin DOMAIN h THEN Plotted(ErrNoRecoveryTime, "raised", n)
    ELSE IF h.l = None THEN Plotted(ErrFormatNone, "raised", n)
    ELSE Plotted("none", "None", n)
    : n \in {IF ax = "None" THEN 1 ELSE 0} })

\* The ax argument: left out, or an axes of the caller's figure.
Axes == {"None", "axes"}

\* loss_type arguments of plot_loss: the four kinds, a label of the loss
\* record that is no kind, and the one column of time_series that is no kind.
PlotKinds == Kinds \cup {"time"}

\* What the caller did with the Household before plotting: nothing, one
\* calc_loss, or get_losses.
Preparations ==
  {[op |-> "none", loss_type |-> "", method |-> ""]}
    \cup {[op |-> "calc_loss", loss_type |-> k, method |-> m] : k \in LossTypeSet, m \in Methods}
    \cup {[op |-> "get_losses", loss_type |-> "", method |-> m] : m \in Methods}

\* The Household h after the preparation q, whether that call returned or
\* raised.
Prepared(h, q) ==
  IF q.op = "calc_loss" THEN calc_loss(h, q.loss_type, q.method).self
  ELSE IF q.op = "get_losses" THEN get_losses(h, q.method).self
  ELSE h

\* A Household built with or without l, its l perhaps assigned afterwards,
\* then prepared.
PlotInit ==
  /\ self = Empty
  /\ call = NoCall
  /\ ncalls = 0
  /\ warnings = NoWarnings
  /\ \E i \in 1..Len(HouseholdArgs), l \in {None, Num(1)}, x \in {None, Num(2)},
        q \in Preparations :
       kernel = [fn |-> "Household",
                 x  |-> Only({ Prepared(IF x = None THEN h ELSE [h EXCEPT !.l = x], q)
                               : h \in {Household(HouseholdArgs[i], l).self} }),
                 p  |-> <<>>,
                 out |-> <<>>]

\* h.plot_loss(loss_type, ax).
PlotLoss ==
  /\ kernel.fn = "Household"
  /\ \E loss_type \in PlotKinds, ax \in Axes :
       kernel' = [kernel EXCEPT !.fn = "plot_loss",
                    !.p = [loss_type |-> loss_type, ax |-> ax],
                    !.out = plot_loss(kernel.x, loss_type, ax)]
  /\ UNCHANGED <<self, call, ncalls, warnings>>

\* h.plot_consumption(ax).
PlotConsumption ==
  /\ kernel.fn = "Household"
  /\ \E ax \in Axes :
       kernel' = [kernel EXCEPT !.fn = "plot_consumption",
                    !.p = [loss_type |-> CONSUMPTION, ax |-> ax],
                    !.out = plot_consumption(kernel.x, ax)]
  /\ UNCHANGED <<self, call, ncalls, warnings>>

PlotNext == PlotLoss \/ PlotConsumption

PlotSpec == PlotInit /\ [][PlotNext]_vars

(* ------------------------------------------------------------------ *)
(* Properties                                                          *)
(* ------------------------------------------------------------------ *)

\* This step is a call of method op on the existing Household.
Calls(op) == Exists /\ ncalls' = ncalls + 1 /\ call'.op = op

\* C1: on a Household whose l was never set (it is still None), calc_loss of
\* any of the four kinds and get_losses, with any method, raise the error of
\* computing with an unset rate, return nothing and leave the object as it was.
C1_NotReady ==
  [][ ( /\ Exists
        /\ self.l = None
        /\ \/ Calls("get_losses")
           \/ Calls("calc_loss") /\ call'.args.loss_type \in LossTypeSet )
      => /\ call'.err = ErrNoneType
         /\ call'.ret = <<>>
         /\ self' = self ]_vars

\* A calc_loss and a get_losses that failed on a Household with l unset, one
\* of them with the method "quad".
C1_Witness ==
  /\ Exists
  /\ self.l = None
  /\ call.err = ErrNoneType
  /\ \/ call.op = "get_losses" /\ call.args.method = "quad"
     \/ call.op = "calc_loss" /\ call.args.loss_type = UTILITY

\* The errors of domain validation: unknown method, unknown kind, eta <= 0,
\* non-positive rate or time.
DomainErrors == {ErrMethod, ErrKind, ErrEta, ErrRate, ErrTime}

\* What a Household stores beyond its constructor parameters.
Stored(h) ==
  [f \in {"l", "recovery_time", "time_series", "total_losses", "l_opt"} \cap DOMAIN h
     |-> h[f]]

\* C2: a calc_loss, get_losses or opt_lambda that ends in a domain-validation
\* error leaves l, recovery_time, time_series, total_losses and l_opt exactly
\* as they were before the call.
C2_NoPartialResult ==
  [][ ( /\ Calls("calc_loss") \/ Calls("get_losses") \/ Calls("opt_lambda")
        /\ call'.err \in DomainErrors )
      => Stored(self') = Stored(self) ]_vars

\* C3: a calc_loss or get_losses called while l <= 0 is rejected with a
\* domain-validation error.
C3_PositiveRate ==
  [][ ( /\ Calls("calc_loss") \/ Calls("get_losses")
        /\ self.l # None
        /\ Le[self.l, 0] )
      => call'.err \in DomainErrors ]_vars

\* The last call was a Household.opt_lambda that returned.
Optimized == Exists /\ call.op = "opt_lambda" /\ call.err = "none"

\* recovery_rate(T, 95) of one time T.
RateOf(T) == recovery_rate(Scalar(T), Num(95)).val.data[1]

\* rec_time_max as the last opt_lambda used it: the end of the grid by default.
UsedMax == IF call.args.rec_time_max = None THEN self.t[Len(self.t)]
           ELSE call.args.rec_time_max

\* The defaults rec_time_min = 0.3 and rec_time_max = t_max = 10.
Defaults ==
  /\ call.args.rec_time_max = None
  /\ call.args.rec_time_min = Dec(3, 10)
  /\ self.t_max = Num(10)

\* C4: after a successful Household.opt_lambda the stored l lies between the
\* bounds given to the Optimizer, recovery_rate(rec_time_max, 95) and
\* recovery_rate(rec_time_min, 95), which are the smallest and largest rate of
\* the sweep; with the defaults it lies strictly between 0 and 10.
C4_WithinBounds ==
  Optimized =>
    /\ RateOf(UsedMax) <= self.l
    /\ self.l <= RateOf(call.args.rec_time_min)
    /\ ArrMin(self.l_opt["lambda"]) <= self.l
    /\ self.l <= ArrMax(self.l_opt["lambda"])
    /\ Defaults => (0 < self.l /\ self.l < Num(10))

\* A default opt_lambda whose optimum is strictly inside the bounds.
C4_Witness ==
  /\ Optimized
  /\ Defaults
  /\ RateOf(UsedMax) < self.l
  /\ self.l < RateOf(call.args.rec_time_min)

\* The arguments that differ from those of the last opt_lambda in no_steps only.
OtherSteps ==
  {b \in OptArgs : /\ b.no_steps # call.args.no_steps
                   /\ [b EXCEPT !.no_steps = call.args.no_steps] = call.args}

\* The entries of an array.
Entries(s) == {s[i] : i \in 1..Len(s)}

\* C5: the optimum returned and stored by a successful Household.opt_lambda is
\* the one every successful call with another no_steps, and hence another
\* sweep, obtains on an equal Household.
C5_SweepIndependent ==
  Optimized =>
    /\ self.l = call.ret
    /\ \A b \in OtherSteps :
         ValuesFor(self, b).err = "none"
           => ValuesFor(self, b).optimal_lambda = call.ret

\* Two successful calls with different sweeps and the same optimum, which is
\* none of the rates of the sweep stored.
C5_Witness ==
  /\ Optimized
  /\ call.ret \notin Entries(self.l_opt["lambda"])
  /\ \E b \in OtherSteps :
       /\ ValuesFor(self, b).err = "none"
       /\ ValuesFor(self, b).df["lambda"] # self.l_opt["lambda"]
       /\ ValuesFor(self, b).df[UTILITY] # self.l_opt[UTILITY]

PositiveRates ==
  /\ Len(kernel.x.data) > 0
  /\ \A i \in 1..Len(kernel.x.data) : Lt[0, kernel.x.data[i]]

\* back differs from r by no more than the rounding of the two quotients
\* T = L / r and back = L / T allows.
WithinRounding(back, r, T) == 2 * T * Abs(back - r) <= r + T

\* recovery_rate(recovery_time(rate, p), p) returned the rates it started
\* from, each within rounding.
RoundTripReturnsRate ==
  /\ kernel.out.err = "none"
  /\ Len(kernel.out.val.data) = Len(kernel.x.data)
  /\ \A i \in 1..Len(kernel.x.data) :
       WithinRounding(kernel.out.val.data[i], kernel.x.data[i],
                      recovery_time(kernel.x, kernel.p).val.data[i])

\* C7 as stated: for every rate > 0 and every rebuilt_per p with 0 <= p < 100,
\* p = 0 included, recovery_rate(recovery_time(rate, p), p) completes without
\* error and equals rate (up to the rounding of the arithmetic).
C7_InverseFromZero ==
  ( /\ kernel.fn = "round_trip"
    /\ PositiveRates
    /\ Le[0, kernel.p] /\ Lt[kernel.p, Num(100)] )
  => RoundTripReturnsRate

\* C7, amended: for every rate > 0 and every rebuilt_per p with 0 < p < 100,
\* recovery_rate(recovery_time(rate, p), p) completes without error and equals
\* rate up to the rounding of the arithmetic.
C7_InverseAboveZero ==
  ( /\ kernel.fn = "round_trip"
    /\ PositiveRates
    /\ Lt[0, kernel.p] /\ Lt[kernel.p, Num(100)] )
  => RoundTripReturnsRate

\* A round trip of a batch of rates at p = 50 that returned the batch.
C7_Witness ==
  /\ kernel.fn = "round_trip"
  /\ kernel.p = Num(50)
  /\ PositiveRates
  /\ Len(kernel.x.data) > 1
  /\ kernel.out.err = "none"
  /\ kernel.out.val.data = kernel.x.data

\* C8: recovery_time and recovery_rate raise exactly when some element of
\* rate / time is <= 0 or rebuilt_per is outside [0, 100); on every other
\* input they return a float for one element and an array otherwise.
C8_FailsExactlyOutsideDomain ==
  kernel.fn \in {"recovery_time", "recovery_rate"} =>
    /\ kernel.out.err # "none"
         <=> \/ \E i \in 1..Len(kernel.x.data) : Le[kernel.x.data[i], 0]
             \/ ~(Le[0, kernel.p] /\ Lt[kernel.p, Num(100)])
    /\ kernel.out.err = "none"
         => (kernel.out.val.scalar <=> Len(kernel.x.data) = 1)

\* C9: calc_loss raises the invalid-kind error for every kind outside the
\* four, whether or not l is set, and leaves the object as it was; for one of
\* the four kinds, with l set (and a known method, and eta > 0 for the utility
\* loss), it stores the kind's curve over the grid and its total and returns
\* that total.
C9_KindsOfCalcLoss ==
  [][ Calls("calc_loss") =>
        /\ call'.args.loss_type \notin LossTypeSet
             => (call'.err = ErrKind /\ self' = self)
        /\ ( /\ call'.args.loss_type \in LossTypeSet
             /\ self.l # None
             /\ call'.args.method \in {"trapezoid", "quad"}
             /\ ~(call'.args.loss_type = UTILITY /\ Le[self.eta, 0]) )
           => /\ call'.err = "none"
              /\ call'.args.loss_type \in DOMAIN self'.time_series
              /\ Len(self'.time_series[call'.args.loss_type]) = Len(self.t)
              /\ call'.args.loss_type \in DOMAIN self'.total_losses
              /\ self'.total_losses[call'.args.loss_type] = call'.ret
              /\ call'.ret # None ]_vars

\* A calc_loss of the utility loss by "quad" that stored and returned its
\* total.
C9_Witness ==
  /\ Exists
  /\ call.op = "calc_loss"
  /\ call.args = [loss_type |-> UTILITY, method |-> "quad"]
  /\ call.err = "none"
  /\ UTILITY \in DOMAIN self.time_series
  /\ self.total_losses[UTILITY] = call.ret

\* C10: the record a successful get_losses returns, whatever calls came
\* before, has exactly seven labels, the four kinds and Wellbeing Loss, Asset
\* Loss and Equity Weighted Loss, and its Asset Loss is v * k_str.
C10_SevenLabels ==
  (Exists /\ call.op = "get_losses" /\ call.err = "none") =>
    /\ DOMAIN call.ret = LossTypeSet \cup {WELLBEING, ASSET, EQUITY}
    /\ Cardinality(DOMAIN call.ret) = 7
    /\ call.ret[ASSET] = Mul[self.v, self.k_str]
    /\ self.total_losses = call.ret

\* A get_losses that returned on a Household whose rate an earlier opt_lambda
\* had set.
C10_Witness ==
  /\ Exists
  /\ call.op = "get_losses"
  /\ call.err = "none"
  /\ "l_opt" \in DOMAIN self
  /\ Cardinality(DOMAIN call.ret) = 7

\* C11: Loss.total raises the validation error of the grid whenever the method
\* is "trapezoid" and the grid has 0 or 1 point, and the validation error of
\* the method whenever the method is neither "trapezoid" nor "quad"; it
\* returns no total then.
C11_ValidationError ==
  kernel.fn = "total" =>
    /\ (kernel.p.method = "trapezoid" /\ Len(kernel.x.t) < 2)
         => kernel.out = Fail(ErrPoints)
    /\ kernel.p.method \notin {"trapezoid", "quad"}
         => kernel.out = Fail(ErrMethod)

\* The household h has a rate and, at some point of its grid, a consumption
\* c0 - consumption loss that is zero or negative.
NonPositiveConsumption(h) ==
  /\ h.l # None
  /\ Lt[0, h.eta]
  /\ \E i \in 1..Len(h.t) :
       Le[consumption_t(h.t[i], h.l, h.v, h.k_str, h.pi, h.c0), 0]

\* The entries of a utility-loss curve that are undefined are those of the
\* grid points where consumption is zero or negative.
UndefinedWhereNonPositive(h, curve) ==
  \A i \in 1..Len(h.t) :
    curve[i] = NaN <=> Le[consumption_t(h.t[i], h.l, h.v, h.k_str, h.pi, h.c0), 0]

\* A calc_loss of the utility loss or a get_losses, by one of the given
\* methods, on a household with non-positive consumption on its grid,
\* completes and reports an undefined Utility Loss (and Wellbeing Loss), the
\* totals of the other kinds being numbers.
UndefinedTotals(methods) ==
  /\ ( /\ Calls("calc_loss")
       /\ call'.args.loss_type = UTILITY
       /\ call'.args.method \in methods
       /\ NonPositiveConsumption(self) )
     => /\ call'.err = "none"
        /\ call'.ret = NaN
        /\ self'.total_losses[UTILITY] = NaN
        /\ UndefinedWhereNonPositive(self, self'.time_series[UTILITY])
  /\ ( /\ Calls("get_losses")
       /\ call'.args.method \in methods
       /\ NonPositiveConsumption(self) )
     => /\ call'.err = "none"
        /\ call'.ret[UTILITY] = NaN
        /\ call'.ret[WELLBEING] = NaN
        /\ \A k \in DOMAIN call'.ret \ {UTILITY, WELLBEING} : call'.ret[k] # NaN
        /\ UndefinedWhereNonPositive(self, self'.time_series[UTILITY])

\* C12 as stated: with consumption zero or negative at some grid point,
\* calc_loss of the utility loss and get_losses, by either method, complete
\* without error and report an undefined Utility Loss and Wellbeing Loss while
\* the other totals stay defined.
C12_UndefinedPropagates == [][UndefinedTotals({"trapezoid", "quad"})]_vars

\* C12 for the rule that integrates over the grid: by "trapezoid" the calls
\* complete without error, the curve is undefined exactly at the grid points
\* of non-positive consumption, Utility Loss and Wellbeing Loss are undefined
\* and the other totals are numbers; by "quad" the calls complete without
\* error too and the other totals are numbers.
C12_UndefinedOnGrid ==
  [][ /\ UndefinedTotals({"trapezoid"})
      /\ ( /\ Calls("calc_loss") \/ Calls("get_losses")
           /\ call'.args.method = "quad"
           /\ "loss_type" \in DOMAIN call'.args => call'.args.loss_type = UTILITY
           /\ NonPositiveConsumption(self) )
         => /\ call'.err = "none"
            /\ Calls("get_losses") =>
                 \A k \in DOMAIN call'.ret \ {UTILITY, WELLBEING} : call'.ret[k] # NaN
    ]_vars

\* A get_losses by "trapezoid" that returned an undefined Utility Loss and
\* Wellbeing Loss next to a defined Consumption Loss.
C12_Witness ==
  /\ Exists
  /\ call.op = "get_losses"
  /\ call.args.method = "trapezoid"
  /\ call.err = "none"
  /\ NonPositiveConsumption(self)
  /\ call.ret[UTILITY] = NaN
  /\ call.ret[WELLBEING] = NaN
  /\ call.ret[CONSUMPTION] # NaN

\* The rate losses_t returned for the i-th time and the j-th recovery rate.
RateAt(i, j) ==
  IF Len(kernel.x.l) = 1 THEN kernel.out.val[i] ELSE kernel.out.val[i][j]

\* The consumption c0 - consumption loss at the i-th time and the j-th rate.
ConsumptionAt(i, j) ==
  consumption_t(kernel.x.t[i], kernel.x.l[j], kernel.x.v, kernel.x.k_str,
                kernel.x.pi, kernel.x.c0)

\* losses_t of a UtilityLoss returned its rates.
UtilityRates ==
  /\ kernel.fn = "losses_t"
  /\ kernel.x.kind = UTILITY
  /\ kernel.out.err = "none"

\* C13 as stated: for t >= 0, l > 0, 0 <= v <= 1, k_str > 0, pi >= 0, c0 > 0
\* and eta > 0 (every argument considered), the utility loss rate is a number
\* and is >= 0.
C13_NonNegative ==
  UtilityRates =>
    \A i \in 1..Len(kernel.x.t), j \in 1..Len(kernel.x.l) :
      RateAt(i, j) # NaN /\ RateAt(i, j) >= 0

\* C13 where consumption remains: when c0 exceeds the consumption loss the
\* utility loss rate is a number >= 0; when it does not, the rate is NaN.
C13_NonNegativeWhereDefined ==
  UtilityRates =>
    \A i \in 1..Len(kernel.x.t), j \in 1..Len(kernel.x.l) :
      IF Lt[0, ConsumptionAt(i, j)]
      THEN RateAt(i, j) # NaN /\ RateAt(i, j) >= 0
      ELSE RateAt(i, j) = NaN

\* Utility loss rates of a batch of two recovery rates: positive at one time,
\* undefined at another.
C13_Witness ==
  /\ UtilityRates
  /\ Len(kernel.x.l) = 2
  /\ \E i \in 1..Len(kernel.x.t) : RateAt(i, 1) # NaN /\ RateAt(i, 1) > 0
  /\ \E i \in 1..Len(kernel.x.t) : RateAt(i, 2) = NaN

\* The household of the end-to-end scenario: v = 0.4, k_str = 100000,
\* c0 = 2000, c_avg = 1800, eta = 1.5, pi = 0.15, rho = 0.06, t_max = 10
\* (money in thousands).
Scenario(h) ==
  /\ h.v = Dec(4, 10) /\ h.k_str = Num(100)
  /\ h.c0 = Num(2) /\ h.c_avg = Dec(18, 10)
  /\ h.eta = Dec(15, 10) /\ h.pi = Dec(15, 100)
  /\ h.rho = Dec(6, 100) /\ h.t_max = Num(10)

\* get_losses() (the default method) has just returned on the scenario
\* household after an opt_lambda, the rate being positive as opt_lambda
\* leaves it.
ScenarioLosses ==
  /\ Exists
  /\ Scenario(self)
  /\ "l_opt" \in DOMAIN self
  /\ Lt[0, self.l]
  /\ call.op = "get_losses"
  /\ call.args.method = "trapezoid"
  /\ call.err = "none"

\* C14 as stated: in the end-to-end scenario, after opt_lambda(), the record
\* returned by get_losses() has a Wellbeing Loss that is defined and > 0.
C14_WellbeingPositive ==
  ScenarioLosses => Lt[0, call.ret[WELLBEING]]

\* C14 as the program computes it: in the end-to-end scenario the consumption
\* loss at t = 0, (pi + l) * v * k_str, exceeds c0 for every rate l > 0, so
\* after opt_lambda() the record returned by get_losses() has an undefined
\* Utility Loss and an undefined Wellbeing Loss, which is not > 0.
C14_WellbeingUndefined ==
  ScenarioLosses =>
    /\ Lt[self.c0, consumption_loss_t(0, self.l, self.v, self.k_str, self.pi)]
    /\ call.ret[UTILITY] = NaN
    /\ call.ret[WELLBEING] = NaN
    /\ ~Lt[0, call.ret[WELLBEING]]

\* The record of the scenario after opt_lambda(): the sweep's smallest rate
\* is the optimum and the Wellbeing Loss is undefined.
C14_Witness ==
  /\ ScenarioLosses
  /\ self.l = ArrMin(self.l_opt["lambda"])
  /\ call.ret[WELLBEING] = NaN

\* C15 as stated: in the end-to-end scenario the record returned by
\* get_losses() has Equity Weighted Loss > Asset Loss.
C15_EquityAboveAsset ==
  ScenarioLosses => Lt[call.ret[ASSET], call.ret[EQUITY]]

\* C15 as the program computes it: Asset Loss = v * k_str (40 thousand) and
\* Equity Weighted Loss = (c0 / c_avg)^(-eta) * v * k_str; c0 > c_avg makes
\* the weight less than 1, so Equity Weighted Loss < Asset Loss.
C15_EquityBelowAsset ==
  ScenarioLosses =>
    /\ call.ret[ASSET] = Num(40)
    /\ call.ret[EQUITY] = Mul[Mul[equity_weight(self.c0, self.c_avg, self.eta), self.v], self.k_str]
    /\ Lt[equity_weight(self.c0, self.c_avg, self.eta), Num(1)]
    /\ Lt[0, call.ret[EQUITY]]
    /\ Lt[call.ret[EQUITY], call.ret[ASSET]]

\* The record of the scenario: an Equity Weighted Loss between 34 and 35
\* thousand next to the Asset Loss of 40 thousand.
C15_Witness ==
  /\ ScenarioLosses
  /\ Lt[Num(34), call.ret[EQUITY]]
  /\ Lt[call.ret[EQUITY], Num(35)]
  /\ call.ret[ASSET] = Num(40)

\* C16 as stated for the process-wide state: no calc_loss, get_losses or
\* opt_lambda, by "trapezoid" or "quad", changes state outside its Household.
C16_GlobalStateUnchanged ==
  [][ ( /\ Calls("calc_loss") \/ Calls("get_losses") \/ Calls("opt_lambda")
        /\ call'.args.method \in {"trapezoid", "quad"} )
      => warnings' = warnings ]_vars

\* The constructor has just built the Household from HouseholdArgs[i].
Built(i) ==
  /\ Exists
  /\ call.op = "__init__"
  /\ call.args.household = i

\* C17: the grid the constructor builds starts at 0, ends at t_max, increases
\* strictly in steps that are equal (up to the rounding of the step), and has
\* exactly floor(t_max / dt) + 1 points for the time step dt passed to the
\* constructor.
C17_GridPoints ==
  \A i \in 1..Len(HouseholdArgs) :
    Built(i) =>
      /\ self.t[1] = 0
      /\ self.t[Len(self.t)] = HouseholdArgs[i].t_max
      /\ \A k \in 1..(Len(self.t) - 1) :
           /\ self.t[k] < self.t[k + 1]
           /\ Abs((self.t[k + 1] - self.t[k]) - (self.t[2] - self.t[1])) <= Len(self.t)
      /\ Len(self.t) = Trunc[Div[HouseholdArgs[i].t_max, HouseholdArgs[i].dt]] + 1

\* A call on a UtilityLoss of two recovery rates l1 < l2 has returned.
TwoRates(fn) ==
  /\ kernel.fn = fn
  /\ kernel.x.kind = UTILITY
  /\ kernel.out.err = "none"
  /\ Len(kernel.x.l) = 2
  /\ kernel.x.l[1] < kernel.x.l[2]

C19_ConservesDamage ==
  kernel.fn \in {"aggregate", "write_footprint_file"} =>
    \A f \in FootprintIds :
      Len(RowsOf(kernel.x, f)) >= 2 =>
        \E k \in 1..Len(kernel.out) :
          /\ kernel.out[k].bf_fid = f
          /\ kernel.out[k].damage = SumSeq(Column(RowsOf(kernel.x, f), "damage"))
          /\ kernel.out[k].object_id = Column(RowsOf(kernel.x, f), "object_id")

\* The validations of _figures_list_to_html on its arguments and the file
\* system before the call.
Validations ==
  [figures    |-> Len(kernel.x.figs) <= 3,
   css_exists |-> kernel.p[kernel.x.stylesheet.name] # Absent,
   css_suffix |-> kernel.x.stylesheet.name[Len(kernel.x.stylesheet.name)] = ".css"
                    /\ Len(kernel.x.stylesheet.name) > 1,
   html_new   |-> kernel.p[kernel.x.file_path.name] = Absent,
   html_suffix |-> kernel.x.file_path.name[Len(kernel.x.file_path.name)] = ".html"
                    /\ Len(kernel.x.file_path.name) > 1]

\* The errors that match the failed validations.
MatchingErrors ==
  (IF Validations.figures THEN {} ELSE {ErrFigures})
    \cup (IF Validations.css_exists THEN {} ELSE {ErrNoStylesheet})
    \cup (IF Validations.css_suffix THEN {} ELSE {ErrNotCss})
    \cup (IF Validations.html_new THEN {} ELSE {ErrFileExists})
    \cup (IF Validations.html_suffix THEN {} ELSE {ErrNotHtml})

\* C20: _figures_list_to_html opens and writes the output file exactly once,
\* and only when every validation has passed (at most 3 figures, stylesheet
\* there, its suffix .css, output path not there yet, its suffix .html); when
\* a validation fails it raises a matching error, does nothing to the output
\* file and leaves every file as it was, an existing output file included.
C20_WritesOnceAfterValidation ==
  kernel.fn = "_figures_list_to_html" =>
    IF MatchingErrors = {}
    THEN /\ kernel.out.err = "none"
         /\ kernel.out.log = <<"open", "write", "close">>
         /\ kernel.out.fs[kernel.x.file_path.name].there
         /\ Len(kernel.out.fs[kernel.x.file_path.name].text) = 1
         /\ \A nm \in DOMAIN kernel.p :
              nm # kernel.x.file_path.name => kernel.out.fs[nm] = kernel.p[nm]
    ELSE /\ kernel.out.err \in MatchingErrors
         /\ kernel.out.log = <<>>
         /\ kernel.out.fs = kernel.p

\* Three figures were written to a new .html file beside an existing
\* stylesheet, each figure's body in its place.
C20_Witness ==
  /\ kernel.fn = "_figures_list_to_html"
  /\ Len(kernel.x.figs) = 3
  /\ kernel.out.err = "none"
  /\ kernel.p[kernel.x.file_path.name] = Absent
  /\ kernel.out.fs[kernel.x.file_path.name].text =
       <<[href |-> <<"styles", ".css">>, top_half |-> <<"damages">>,
          bottom_left |-> <<"homes">>, bottom_right |-> <<"roads">>]>>

\* The operations of a log, in their order.
OpsOf(log) == [i \in 1..Len(log) |-> log[i].op]

\* C21: _get_impact_metrics checks the results CSV, then the metrics
\* configuration, and only then reads the CSV, once; a missing file raises
\* FileNotFoundError at its own check, with no later check, no CSV read and
\* no removal; on success the metrics file is removed exactly once when
\* keep_files is False and never when it is True.
C21_FixedOrder ==
  kernel.fn = "_get_impact_metrics" =>
    LET ops == OpsOf(kernel.out.log)
        csv == csv_file_of(kernel.x.database_path.name, kernel.x.scenario_name)
        config == metrics_config_path_of(kernel.x.database_path.name)
        removals == Cardinality({i \in 1..Len(ops) : ops[i] = "os.remove"})
        reads == Cardinality({i \in 1..Len(ops) :
                   ops[i] = "pd.read_csv" /\ kernel.out.log[i].path = csv})
    IN  IF csv \notin kernel.p
        THEN /\ kernel.out.err = ErrNoResults
             /\ ops = <<"Path.exists">>
             /\ kernel.out.fs = kernel.p
        ELSE IF config \notin kernel.p
        THEN /\ kernel.out.err = ErrNoConfig
             /\ ops = <<"Path.exists", "Path.exists">>
             /\ kernel.out.log[2].path = config
             /\ kernel.out.fs = kernel.p
        ELSE /\ kernel.out.err = "none"
             /\ SubSeq(ops, 1, 3) = <<"Path.exists", "Path.exists", "pd.read_csv">>
             /\ kernel.out.log[1].path = csv
             /\ kernel.out.log[2].path = config
             /\ kernel.out.log[3].path = csv
             /\ reads = 1
             /\ removals = (IF kernel.x.keep_files THEN 0 ELSE 1)
             /\ ~kernel.x.keep_files => ops[Len(ops)] = "os.remove"

\* The metrics of a scenario were read with both files there and the
\* metrics file was removed afterwards.
C21_Witness ==
  /\ kernel.fn = "_get_impact_metrics"
  /\ kernel.out.err = "none"
  /\ ~kernel.x.keep_files
  /\ OpsOf(kernel.out.log) = <<"Path.exists", "Path.exists", "pd.read_csv", "write",
                               "os.path.exists", "pd.read_csv", "os.remove">>

\* C22: calculate gives NaN for a row exactly when every return-period value
\* of the row is NaN; every other row gets a number between 0 and 100; and
\* the result of a row is the result of that row computed alone.
C22_NaNOnlyForEmptyRows ==
  kernel.fn = "calculate" =>
    /\ Len(kernel.out) = Len(kernel.x.rows)
    /\ \A i \in 1..Len(kernel.x.rows) :
         /\ kernel.out[i] = NaN
               <=> \A k \in 1..Len(kernel.x.rows[i]) : kernel.x.rows[i][k] = NaN
         /\ kernel.out[i] # NaN => 0 <= kernel.out[i] /\ kernel.out[i] <= Num(100)
         /\ kernel.out[i] =
              calculate([kernel.x EXCEPT !.rows = <<kernel.x.rows[i]>>],
                        kernel.p.threshold, kernel.p.T)[1]

\* A row with two missing values beside a row of missing values only: the
\* first gets the probability of the test data (82.0), the second NaN.
C22_Witness ==
  /\ kernel.fn = "calculate"
  /\ kernel.x.rows = <<<<NaN, NaN, 0, Dec(5, 10), Dec(5, 10)>>,
                        <<NaN, NaN, NaN, NaN, NaN>>>>
  /\ kernel.out[2] = NaN
  /\ kernel.out[1] # NaN
  /\ kernel.out[1] > 0

\* The total of a kind for the rate the Household h has now, by a method.
CurrentTotal(h, kind, method) == Loss_total(Loss(kind, h.t, <<h.l>>, h), 0, method)

\* The curve of a kind for the rate the Household h has now.
CurrentCurve(h, kind) == Loss_losses_t(Loss(kind, h.t, <<h.l>>, h))

\* C23: whatever the calls made, every kind total in the loss record, and
\* every kind curve in time_series, is the value for the current l.
C23_ResultsOfCurrentRate ==
  Exists =>
    /\ \A kind \in LossTypeSet \cap DOMAIN self.total_losses :
         \E method \in {"trapezoid", "quad"} :
           Only({ tot.err = "none" /\ tot.val.data[1] = self.total_losses[kind]
                  : tot \in {CurrentTotal(self, kind, method)} })
    /\ \A kind \in LossTypeSet \cap DOMAIN self.time_series :
         Only({ lt.err = "none" /\ lt.val = self.time_series[kind]
                : lt \in {CurrentCurve(self, kind)} })

\* C24: whenever the Household has a recovery rate (a positive one, set at
\* construction, by assignment or by opt_lambda), it has a recovery_time, the
\* 95% recovery time of that rate.
C24_RecoveryTimeOfCurrentRate ==
  (Exists /\ self.l # None /\ self.l > 0) =>
    /\ "recovery_time" \in DOMAIN self
    /\ self.recovery_time = recovery_time(Scalar(self.l), Num(95)).val.data[1]

\* C25: in every state, also after a call that raised, a loss kind has a
\* curve in time_series exactly when it has a total in total_losses, and the
\* time column of time_series is the time grid.
C25_CurvesAndTotalsInParallel ==
  Exists =>
    /\ \A kind \in LossTypeSet :
         kind \in DOMAIN self.time_series <=> kind \in DOMAIN self.total_losses
    /\ self.time_series["time"] = self.t

\* The Loss of the call with the i-th rate of its batch alone.
RateAlone(i) == [kernel.x EXCEPT !.l = <<kernel.x.l[i]>>]

C27_IndependentOfDiscountRate ==
  /\ kernel.fn = "opt_lambda" =>
       /\ kernel.out[1].err = kernel.out[2].err
       /\ kernel.out[1].ret = kernel.out[2].ret
       /\ kernel.out[1].err = "none" =>
            /\ kernel.out[1].self.l = kernel.out[2].self.l
            /\ kernel.out[1].self.l_opt = kernel.out[2].self.l_opt
  /\ (kernel.fn = "calc_loss" /\ kernel.x.a.l = kernel.x.b.l) =>
       /\ kernel.out[1].err = kernel.out[2].err
       /\ kernel.out[1].ret = kernel.out[2].ret
       /\ kernel.out[1].self.total_losses = kernel.out[2].self.total_losses

\* opt_lambda found the same rate for a Household with rho = 0.06 and l = 1
\* and for one with rho = 0, another c_avg, another currency and l = 2.
C27_Witness ==
  /\ kernel.fn = "opt_lambda"
  /\ kernel.x.a.rho > 0
  /\ kernel.x.b.rho = 0
  /\ kernel.x.b.c_avg # kernel.x.a.c_avg
  /\ kernel.x.b.currency # kernel.x.a.currency
  /\ kernel.x.b.l # kernel.x.a.l
  /\ kernel.out[1].err = "none"
  /\ kernel.out[1].ret = kernel.out[2].ret
  /\ kernel.out[1].ret > 0

\* The last call computed the consumption loss by the trapezoid method for a
\* positive rate: a get_losses, or a calc_loss of that kind.
ConsumptionByTrapezoid ==
  /\ Exists
  /\ call.err = "none"
  /\ self.l # None /\ self.l > 0
  /\ \/ call.op = "get_losses"
     \/ call.op = "calc_loss" /\ call.args.loss_type = CONSUMPTION
  /\ call.args.method = "trapezoid"

\* The income and the reconstruction totals for the current rate, added.
IncomePlusReconstruction ==
  Add[CurrentTotal(self, INCOME, "trapezoid").val.data[1],
      CurrentTotal(self, RECONSTRUCTION, "trapezoid").val.data[1]]

\* The consumption curve is the sum of the income and the reconstruction
\* curve at every grid point.
CurvesAdd ==
  \A k \in 1..Len(self.t) :
    self.time_series[CONSUMPTION][k] =
      Add[CurrentCurve(self, INCOME).val[k], CurrentCurve(self, RECONSTRUCTION).val[k]]

\* C28 as stated: for l > 0 and the trapezoid method the stored Consumption
\* Loss total equals the Income Loss total plus the Reconstruction Costs
\* total, and the consumption curve is the sum of the two curves at every
\* grid point.
C28_TotalsAddExactly ==
  ConsumptionByTrapezoid =>
    /\ self.total_losses[CONSUMPTION] = IncomePlusReconstruction
    /\ CurvesAdd

\* C28 amended: the curves add exactly; the totals add up to the rounding of
\* the trapezoid sums, one product and one halving per interval of the grid
\* in each of the three totals.
C28_TotalsAddWithinRounding ==
  ConsumptionByTrapezoid =>
    /\ Abs(self.total_losses[CONSUMPTION] - IncomePlusReconstruction)
         <= 2 * (Len(self.t) - 1)
    /\ CurvesAdd

\* get_losses stored a consumption total that is not, to the last digit, the
\* sum of the two totals stored beside it.
C28_Witness ==
  /\ ConsumptionByTrapezoid
  /\ call.op = "get_losses"
  /\ self.total_losses[CONSUMPTION] > 0
  /\ self.total_losses[CONSUMPTION]
       # self.total_losses[INCOME] + self.total_losses[RECONSTRUCTION]

\* The last call was an opt_lambda within the stated domain: no_steps >= 1
\* and 0 < rec_time_min <= rec_time_max (the end of the grid by default), by
\* a known method on a Household whose eta utility() accepts.
SweepInDomain ==
  /\ Exists
  /\ call.op = "opt_lambda"
  /\ call.args.no_steps >= 1
  /\ call.args.rec_time_min > 0
  /\ call.args.rec_time_min <= UsedMax
  /\ call.args.method \in {"trapezoid", "quad"}
  /\ self.eta > 0

\* C29: such an opt_lambda succeeds and stores a sweep table of exactly
\* no_steps rows and the six columns lambda, recovery_time and the four kind
\* totals, each row's recovery_time being the 95% recovery time of its
\* lambda, the rows running from rec_time_min to rec_time_max.
C29_SweepTable ==
  SweepInDomain =>
    /\ call.err = "none"
    /\ "l_opt" \in DOMAIN self
    /\ DOMAIN self.l_opt = {"lambda", "recovery_time"} \cup LossTypeSet
    /\ \A col \in DOMAIN self.l_opt : Len(self.l_opt[col]) = call.args.no_steps
    /\ \A i \in 1..call.args.no_steps :
         self.l_opt["recovery_time"][i]
           = recovery_time(Scalar(self.l_opt["lambda"][i]), Num(95)).val.data[1]
    /\ self.l_opt["lambda"][1] = RateOf(call.args.rec_time_min)
    /\ self.l_opt["lambda"][call.args.no_steps] = RateOf(UsedMax)

\* The kind the plotting call asks for has been calculated: its curve and
\* its total are stored, and for plot_consumption so are the income and
\* reconstruction results it draws and the recovery time it marks.
PlotCalculated ==
  IF kernel.fn = "plot_loss"
  THEN /\ kernel.p.loss_type \in LossTypeSet
       /\ kernel.p.loss_type \in DOMAIN kernel.x.time_series
       /\ kernel.p.loss_type \in DOMAIN kernel.x.total_losses
  ELSE /\ {CONSUMPTION, INCOME, RECONSTRUCTION} \subseteq DOMAIN kernel.x.time_series
       /\ {CONSUMPTION, INCOME, RECONSTRUCTION} \subseteq DOMAIN kernel.x.total_losses
       /\ "recovery_time" \in DOMAIN kernel.x

\* The kind the plotting call asks for has no curve in time_series.
PlotNotCalculated == kernel.p.loss_type \notin DOMAIN kernel.x.time_series

\* C30: plot_loss and plot_consumption return the figure when called
\* without an axes and return None, without raising, when an axes is
\* supplied; when the requested kind has not been calculated they raise
\* ValueError before any figure is created.
C30_PlotReturns ==
  kernel.fn \in {"plot_loss", "plot_consumption"} =>
    /\ (PlotCalculated /\ kernel.p.ax = "None") =>
         (kernel.out.err = "none" /\ kernel.out.ret = "Figure")
    /\ (PlotCalculated /\ kernel.p.ax = "axes") =>
         (kernel.out.err = "none" /\ kernel.out.ret = "None")
    /\ PlotNotCalculated =>
         (kernel.out.err = ErrNotCalculated /\ kernel.out.figures = 0)

====
